---- MODULE Spec2Model ----
(***************************************************************************)
(* State-machine model of libusb/os/windows_usb.c: the transfer pipeline   *)
(* (submit / cancel / complete with auto-claim reference counting) and the *)
(* topology builder (windows_enumerate_device / windows_scan_devices).     *)
(***************************************************************************)
EXTENDS Integers, Sequences, FiniteSets, Bags, TLC

(***************************************************************************)
(* Bounds of the model.                                                    *)
(***************************************************************************)
\* number of interface slots of a device (32 in the program)
USB_MAXINTERFACES == 2
\* number of transfers the application has submitted at any one time
MaxTransfers == 2

\* largest value autoclaim_count[] is followed to
MaxAutoclaim == 2
\* devices the OS can list
NumDevices == 3
\* HTAB_SIZE: the size htab_create is asked for
HTAB_SIZE == 3
\* MAX_USB_HOST_CONTROLLERS: length of host_controller[]
MAX_USB_HOST_CONTROLLERS == 2

Interfaces == 0..(USB_MAXINTERFACES - 1)

Min(S) == CHOOSE x \in S : \A y \in S : x <= y

(***************************************************************************)
(* Vocabulary                                                              *)
(***************************************************************************)
\* usb_api_backend[].id values that can own a device or an interface
ApiIds == {"UNSUPPORTED", "HUB", "COMPOSITE", "WINUSBX", "HID"}

\* values of a HANDLE field: "INVALID" stands for both 0 and
\* INVALID_HANDLE_VALUE, which every reader treats alike (HANDLE_VALID),
\* "OPEN" for an open OS handle, "CLAIMED" for the INTERFACE_CLAIMED marker
\* the HID backend stores in dev_handle
HandleValues == {"INVALID", "OPEN", "CLAIMED"}

\* HANDLE_VALID: (h != 0) && (h != INVALID_HANDLE_VALUE)
HandleValid(h) == h # "INVALID"

\* Windows I/O result codes seen by windows_transfer_callback
IoResults == {"NO_ERROR", "ERROR_GEN_FAILURE", "ERROR_SEM_TIMEOUT",
              "ERROR_OPERATION_ABORTED", "ERROR_OTHER"}

\* endpoint addresses the configuration descriptor lists for interface i
EndpointsOf(i) == {i + 1}
\* endpoint addresses an application may put in a transfer
Endpoints == 1..(USB_MAXINTERFACES + 1)

VARIABLES
    dev_api,             \* priv->apib->id of the opened device
    usb_interface,       \* priv->usb_interface[]: path, apib, endpoint, restricted
    hid,                 \* priv->hid: NULL, or hid->nb_interfaces
    opened,              \* the device handle has been opened
    interface_handle,    \* handle_priv->interface_handle[]: dev_handle, api_handle
    claimed_interfaces,  \* dev_handle->claimed_interfaces (core bit mask)
    autoclaim_count,     \* handle_priv->autoclaim_count[]
    transfers,           \* bag of the transfers being submitted or in flight
    ev                   \* what the last submit or completion did, in order

xferVars == <<dev_api, usb_interface, hid, opened, interface_handle,
              claimed_interfaces, autoclaim_count, transfers>>

VARIABLES
    htab_table,          \* htab_table[]: used, str
    htab_filled,         \* htab_filled
    host_controller,     \* host_controller[]: instance ids in first-seen order
    usb_devs,            \* ctx->usb_devs of every context: the session registry
    os_present,          \* device instance ids the OS currently lists
    scan                 \* position of windows_scan_devices in each context

enumVars == <<htab_table, htab_filled, host_controller, usb_devs,
              os_present, scan>>

VARIABLES
    lookup,              \* get_api_type: lookup[k].list of the device classified
    hash_returned        \* the values htab_hash has returned for each string

VARIABLES
    concurrent_usage,    \* concurrent_usage
    singletons,          \* the process-wide objects that exist
    init_semaphore,      \* the named init semaphore is signaled (count 1)
    contexts             \* the contexts whose windows_init has succeeded

initVars == <<concurrent_usage, singletons, init_semaphore, contexts>>

VARIABLES
    pending              \* calls past their unlocked lookup and before their
                         \* write: windows_enumerate_device between the
                         \* session lookup and usbi_alloc_device, htab_hash
                         \* between the search and the locked store

procVars == <<lookup, hash_returned, concurrent_usage, singletons,
              init_semaphore, contexts, pending>>

vars == <<dev_api, usb_interface, hid, opened, interface_handle,
          claimed_interfaces, autoclaim_count, transfers, ev,
          htab_table, htab_filled, host_controller, usb_devs,
          os_present, scan, lookup, hash_returned,
          concurrent_usage, singletons, init_semaphore, contexts, pending>>

\* lookup[] before any registry property has been read
NoLookup == <<<<>>, <<>>, <<>>>>

\* number of strings htab_hash is called with
NumStrings == 6

\* the strings htab_hash is called with, as character codes
HashStrings == {<<64 + c>> : c \in 1..NumStrings}

\* htab_hash has not been called
NoReturned == [str \in HashStrings |-> {}]

\* nothing is being classified or hashed
ProcIdle ==
    /\ lookup = NoLookup /\ hash_returned = NoReturned
    /\ concurrent_usage = -1 /\ singletons = {}
    /\ init_semaphore = TRUE /\ contexts = {}
    /\ pending = {}

(***************************************************************************)
(* The handle state the helper functions read and write, as one record.    *)
(***************************************************************************)
HState(ui, ih, ci, ac, e) ==
    [ui |-> ui, ih |-> ih, ci |-> ci, ac |-> ac, ev |-> e]

CurH == HState(usb_interface, interface_handle, claimed_interfaces,
               autoclaim_count, <<>>)

\* outcome record of a call: the new handle state and the return code
Ret(h, r) == [h |-> h, r |-> r]

Emit(h, e) == [h EXCEPT !.ev = Append(@, e)]

(***************************************************************************)
(* Backend claim / release of one interface                                *)
(***************************************************************************)
\* outcomes of the OS calls inside a claim: every call succeeds, the first
\* WinUSB call of the claim fails, reading the endpoints fails
ClaimOs == {"ok", "fail", "epfail"}
\* the outcomes followed for the claims auto_claim makes
AutoClaimOs == {"ok", "fail"}

SetApiHandle(h, i, v) == [h EXCEPT !.ih[i].api_handle = v]
SetDevHandle(h, i, v) == [h EXCEPT !.ih[i].dev_handle = v]

\* winusbx_claim_interface
winusbx_claim_interface(h, iface, os) ==
    IF dev_api = "COMPOSITE" \/ iface = 0
    THEN IF ~HandleValid(h.ih[iface].dev_handle)
         THEN Ret(h, "NOT_FOUND")
         ELSE IF os = "fail"
              THEN Ret(SetApiHandle(h, iface, "INVALID"), "ACCESS")
              ELSE Ret(SetApiHandle(h, iface, "OPEN"), "SUCCESS")
    ELSE IF ~HandleValid(h.ih[0].api_handle)
         THEN IF os = "fail"
              THEN Ret(h, "ACCESS")
              ELSE Ret(SetApiHandle(SetApiHandle(h, 0, "OPEN"), iface, "OPEN"),
                       "SUCCESS")
         ELSE IF os = "fail"
              THEN Ret(SetApiHandle(h, iface, "INVALID"), "ACCESS")
              ELSE Ret(SetApiHandle(h, iface, "OPEN"), "SUCCESS")

\* winusbx_release_interface
winusbx_release_interface(h, iface) ==
    IF ~HandleValid(h.ih[iface].api_handle)
    THEN Ret(h, "NOT_FOUND")
    ELSE Ret(SetApiHandle(h, iface, "INVALID"), "SUCCESS")

\* a hid_claim_interface that does not look at the claim marker
hid_claim_interface_again(h, iface) ==
    IF ~h.ui[iface].path
    THEN Ret(h, "NOT_FOUND")
    ELSE Ret(SetDevHandle(h, iface, "CLAIMED"), "SUCCESS")

\* hid_claim_interface
hid_claim_interface(h, iface) ==
    IF ~h.ui[iface].path
    THEN Ret(h, "NOT_FOUND")
    ELSE IF h.ih[iface].dev_handle = "CLAIMED"
         THEN Ret(h, "BUSY")
         ELSE Ret(SetDevHandle(h, iface, "CLAIMED"), "SUCCESS")

\* hid_release_interface
hid_release_interface(h, iface) ==
    IF ~h.ui[iface].path
    THEN Ret(h, "NOT_FOUND")
    ELSE IF h.ih[iface].dev_handle # "CLAIMED"
         THEN Ret(h, "NOT_FOUND")
         ELSE Ret(SetDevHandle(h, iface, "INVALID"), "SUCCESS")

\* usb_api_backend[api].claim_interface
api_claim_interface(api, h, iface, os) ==
    CASE api = "WINUSBX" -> winusbx_claim_interface(h, iface, os)
      [] api = "HID" -> hid_claim_interface(h, iface)
      [] OTHER -> Ret(h, "NOT_SUPPORTED")

\* usb_api_backend[api].release_interface
api_release_interface(api, h, iface) ==
    CASE api = "WINUSBX" -> winusbx_release_interface(h, iface)
      [] api = "HID" -> hid_release_interface(h, iface)
      [] OTHER -> Ret(h, "NOT_SUPPORTED")

\* composite_claim_interface: dispatch on the interface's own backend
composite_claim_interface(h, iface, os) ==
    api_claim_interface(h.ui[iface].apib, h, iface, os)

\* composite_release_interface
composite_release_interface(h, iface) ==
    api_release_interface(h.ui[iface].apib, h, iface)

\* windows_assign_endpoints (altsetting 0)
windows_assign_endpoints(h, iface, os) ==
    IF os = "epfail"
    THEN Ret(h, "IO")
    ELSE Ret([h EXCEPT !.ui[iface].endpoint = EndpointsOf(iface)], "SUCCESS")

\* windows_claim_interface: the backend's claim_interface entry point
windows_claim_interface(h, iface, os) ==
    LET h1 == Emit([h EXCEPT !.ui[iface].endpoint = {}], <<"claim", iface>>)
        c  == IF dev_api = "COMPOSITE"
              THEN composite_claim_interface(h1, iface, os)
              ELSE api_claim_interface(dev_api, h1, iface, os)
    IN  IF c.r = "SUCCESS" THEN windows_assign_endpoints(c.h, iface, os) ELSE c

\* windows_release_interface: the backend's release_interface entry point
windows_release_interface(h, iface) ==
    LET h1 == Emit(h, <<"release", iface>>)
    IN  IF dev_api = "COMPOSITE"
        THEN composite_release_interface(h1, iface)
        ELSE api_release_interface(dev_api, h1, iface)

\* libusb_claim_interface (core): an interface the handle already holds is
\* not claimed again at the backend
libusb_claim_interface(h, iface, os) ==
    IF iface \in h.ci
    THEN Ret(h, "SUCCESS")
    ELSE LET c == windows_claim_interface(h, iface, os)
         IN  IF c.r = "SUCCESS"
             THEN Ret([c.h EXCEPT !.ci = @ \cup {iface}], "SUCCESS")
             ELSE c

\* libusb_release_interface (core)
libusb_release_interface(h, iface) ==
    IF iface \notin h.ci
    THEN Ret(h, "NOT_FOUND")
    ELSE LET c == windows_release_interface(h, iface)
         IN  IF c.r = "SUCCESS"
             THEN Ret([c.h EXCEPT !.ci = @ \ {iface}], "SUCCESS")
             ELSE c

(***************************************************************************)
(* auto-claim and auto-release                                             *)
(***************************************************************************)
\* the loop of auto_claim over the interface slots, starting at slot i
RECURSIVE auto_claim_scan(_, _, _, _)
auto_claim_scan(h, i, api_type, osmap) ==
    IF i = USB_MAXINTERFACES
    THEN [h |-> h, r |-> "NOT_FOUND", iface |-> USB_MAXINTERFACES]
    ELSE IF h.ui[i].apib = api_type
         THEN LET c == libusb_claim_interface(h, i, osmap[i])
              IN  IF c.r = "SUCCESS"
                  THEN [h |-> [c.h EXCEPT !.ac[i] = @ + 1],
                        r |-> "SUCCESS", iface |-> i]
                  ELSE auto_claim_scan(c.h, i + 1, api_type, osmap)
         ELSE auto_claim_scan(h, i + 1, api_type, osmap)

\* auto_claim that counts an interface before its claim has succeeded
auto_claim_counts_first(h, current_interface, api_type, osmap) ==
    LET a == auto_claim_scan(h, 0, api_type, osmap)
    IN  IF a.r = "SUCCESS"
        THEN a
        ELSE [a EXCEPT !.h.ac = [i \in Interfaces |->
                                   IF h.ui[i].apib = api_type
                                   THEN h.ac[i] + 1 ELSE h.ac[i]]]

\* auto_claim(transfer, &interface_number, api_type)
auto_claim(h, current_interface, api_type, osmap) ==
    IF api_type \notin {"WINUSBX", "HID"}
    THEN [h |-> h, r |-> "INVALID_PARAM", iface |-> current_interface]
    ELSE IF current_interface < 0
         THEN auto_claim_scan(h, 0, api_type, osmap)
         ELSE [h |-> IF h.ac[current_interface] # 0
                     THEN [h EXCEPT !.ac[current_interface] = @ + 1]
                     ELSE h,
               r |-> "SUCCESS", iface |-> current_interface]

\* auto_release that releases at every decrement
auto_release_every_time(h, interface_number) ==
    IF h.ac[interface_number] > 0
    THEN libusb_release_interface([h EXCEPT !.ac[interface_number] = @ - 1],
                                  interface_number).h
    ELSE h

\* auto_release(itransfer), for a transfer bound to interface_number
auto_release(h, interface_number) ==
    IF h.ac[interface_number] > 0
    THEN LET h1 == [h EXCEPT !.ac[interface_number] = @ - 1]
         IN  IF h1.ac[interface_number] = 0
             THEN libusb_release_interface(h1, interface_number).h
             ELSE h1
    ELSE h

\* get_valid_interface(dev_handle, api_id)
get_valid_interface(h, api_id) ==
    IF api_id \notin {"WINUSBX", "HID"}
    THEN -1
    ELSE LET S == {i \in Interfaces :
                     /\ HandleValid(h.ih[i].dev_handle)
                     /\ HandleValid(h.ih[i].api_handle)
                     /\ h.ui[i].apib = api_id}
         IN  IF S = {} THEN -1 ELSE Min(S)

\* interface_by_endpoint(priv, handle_priv, endpoint_address)
interface_by_endpoint(h, endpoint_address) ==
    LET S == {i \in Interfaces :
                 /\ HandleValid(h.ih[i].api_handle)
                 /\ endpoint_address \in h.ui[i].endpoint}
    IN  IF S = {} THEN -1 ELSE Min(S)

(***************************************************************************)
(* Transfers                                                               *)
(***************************************************************************)
\* os_priv and flags of a transfer the backend has accepted:
\* interface_number, the pending HID buffers, and the cancel / timeout marks
\* of the core
Transfer(state, api, iface, buf, dest) ==
    [state |-> state, api |-> api, interface_number |-> iface,
     hid_buffer |-> buf, hid_dest |-> dest,
     cancelled |-> FALSE, timed_out |-> FALSE]

\* no transfer: what a submit that failed leaves behind
NoTransfer == Transfer("none", "none", -1, FALSE, FALSE)

\* what the OS and the allocator answer during one submit; "sync" is a
\* request the OS completed at once, which goes through the event loop like
\* a pending one (its overlapped is marked STATUS_COMPLETED_SYNCHRONOUSLY)
SubmitOs == {"pending_read", "pending_write", "sync", "fdfail", "iofail"}

\* outcome of a submit: the code returned and the transfer left in flight
Failed(code) == [tr |-> NoTransfer, r |-> code]

\* the transfer is handed to the event loop: transfer_priv is filled in and
\* submit_*_transfer adds the pollable descriptor (usbi_add_pollfd)
Flying(iface, buf, dest) ==
    [tr |-> Transfer("flying", "none", iface, buf, dest),
     r |-> "SUCCESS"]

\* winusbx_submit_control_transfer, from the interface it resolved onwards
winusbx_control_io(iface, os) ==
    CASE os = "fdfail" -> Failed("NO_MEM")
      [] os = "iofail" -> Failed("IO")
      [] OTHER -> Flying(iface, FALSE, FALSE)

\* hid_submit_control_transfer, from the interface it resolved onwards
hid_control_io(iface, os) ==
    CASE os = "fdfail" -> Failed("NOT_FOUND")
      [] os = "iofail" -> Failed("IO")
      [] os = "pending_read" -> Flying(iface, TRUE, TRUE)
      [] os = "pending_write" -> Flying(iface, TRUE, FALSE)
      [] OTHER -> Flying(iface, FALSE, FALSE)

\* composite_submit_control_transfer: the interface whose backend gets the
\* request (first unrestricted one with a path, else first with a path)
composite_control_interface(h) ==
    LET P0 == {i \in Interfaces : h.ui[i].path /\ ~h.ui[i].restricted}
        P1 == {i \in Interfaces : h.ui[i].path}
    IN  IF P0 # {} THEN Min(P0) ELSE IF P1 # {} THEN Min(P1) ELSE -1

\* the backend whose submit_control_transfer serves the device
control_api(h) ==
    IF dev_api = "COMPOSITE"
    THEN IF composite_control_interface(h) < 0
         THEN "none"
         ELSE h.ui[composite_control_interface(h)].apib
    ELSE dev_api

\* the part of {winusbx,hid}_submit_control_transfer after the interface is known
control_io(api, iface, os) ==
    IF api = "WINUSBX"
    THEN winusbx_control_io(iface, os)
    ELSE hid_control_io(iface, os)

\* winusbx_submit_bulk_transfer
winusbx_submit_bulk_transfer(h, endpoint, os) ==
    LET cur == interface_by_endpoint(h, endpoint)
    IN  IF cur < 0 THEN Failed("NOT_FOUND")
        ELSE CASE os = "fdfail" -> Failed("NO_MEM")
               [] os = "iofail" -> Failed("IO")
               [] OTHER -> Flying(cur, FALSE, FALSE)

\* hid_submit_bulk_transfer
hid_submit_bulk_transfer(h, endpoint, os) ==
    LET cur == interface_by_endpoint(h, endpoint)
    IN  IF cur < 0 THEN Failed("NOT_FOUND")
        ELSE CASE os = "fdfail" -> Failed("NO_MEM")
               [] os = "iofail" -> Failed("IO")
               [] os = "sync" -> Flying(cur, FALSE, FALSE)
               [] os = "pending_write" -> Flying(cur, TRUE, FALSE)
               [] OTHER -> Flying(cur, TRUE, TRUE)

\* usb_api_backend[api].submit_bulk_transfer
api_submit_bulk_transfer(api, h, endpoint, os) ==
    CASE api = "WINUSBX" -> winusbx_submit_bulk_transfer(h, endpoint, os)
      [] api = "HID" -> hid_submit_bulk_transfer(h, endpoint, os)
      [] OTHER -> Failed("NOT_SUPPORTED")

\* composite_submit_bulk_transfer
composite_submit_bulk_transfer(h, endpoint, os) ==
    LET cur == interface_by_endpoint(h, endpoint)
    IN  IF cur < 0 THEN Failed("NOT_FOUND")
        ELSE api_submit_bulk_transfer(h.ui[cur].apib, h, endpoint, os)

\* submit_bulk_transfer: dispatch on the device's backend
submit_bulk_transfer(h, endpoint, os) ==
    IF dev_api = "COMPOSITE"
    THEN composite_submit_bulk_transfer(h, endpoint, os)
    ELSE api_submit_bulk_transfer(dev_api, h, endpoint, os)

(***************************************************************************)
(* Completion                                                              *)
(***************************************************************************)
\* winusbx_copy_transfer_data
winusbx_copy_transfer_data(tr, oversize) ==
    [tr |-> tr, status |-> "COMPLETED"]

\* hid_copy_transfer_data: oversize is io_size > hid_expected_size
hid_copy_transfer_data(tr, oversize) ==
    IF tr.hid_buffer
    THEN [tr |-> [tr EXCEPT !.hid_buffer = FALSE, !.hid_dest = FALSE],
          status |-> IF tr.hid_dest /\ oversize THEN "OVERFLOW" ELSE "COMPLETED"]
    ELSE [tr |-> tr, status |-> "COMPLETED"]

\* a backend table whose HID entry has no copy_transfer_data
api_copy_transfer_data_no_hid(api, tr, oversize) ==
    CASE api = "WINUSBX" -> winusbx_copy_transfer_data(tr, oversize)
      [] OTHER -> [tr |-> tr, status |-> "NOT_SUPPORTED"]

\* usb_api_backend[api].copy_transfer_data
api_copy_transfer_data(api, tr, oversize) ==
    CASE api = "WINUSBX" -> winusbx_copy_transfer_data(tr, oversize)
      [] api = "HID" -> hid_copy_transfer_data(tr, oversize)
      [] OTHER -> [tr |-> tr, status |-> "NOT_SUPPORTED"]

\* priv->apib->copy_transfer_data, composite_copy_transfer_data included
copy_transfer_data(h, tr, oversize) ==
    IF dev_api = "COMPOSITE"
    THEN api_copy_transfer_data(h.ui[tr.interface_number].apib, tr, oversize)
    ELSE api_copy_transfer_data(dev_api, tr, oversize)

\* windows_clear_transfer_priv
windows_clear_transfer_priv(h, tr) ==
    [h |-> auto_release(h, tr.interface_number),
     tr |-> [tr EXCEPT !.hid_buffer = FALSE]]

\* transfer_status without the USBI_TRANSFER_TIMED_OUT test of the aborted case
transfer_status_no_timed_out(h, tr, io_result, oversize) ==
    CASE io_result = "NO_ERROR" ->
            [copied |-> TRUE, tr |-> copy_transfer_data(h, tr, oversize).tr,
             status |-> copy_transfer_data(h, tr, oversize).status]
      [] io_result = "ERROR_GEN_FAILURE" ->
            [copied |-> FALSE, tr |-> tr, status |-> "STALL"]
      [] io_result = "ERROR_SEM_TIMEOUT" ->
            [copied |-> FALSE, tr |-> tr, status |-> "TIMED_OUT"]
      [] io_result = "ERROR_OPERATION_ABORTED" ->
            [copied |-> TRUE, tr |-> copy_transfer_data(h, tr, oversize).tr,
             status |-> "CANCELLED"]
      [] OTHER ->
            [copied |-> FALSE, tr |-> tr, status |-> "ERROR"]

\* transfer_status that lets the copy step decide the status of an aborted
\* request too
transfer_status_copy_decides(h, tr, io_result, oversize) ==
    CASE io_result \in {"NO_ERROR", "ERROR_OPERATION_ABORTED"} ->
            [copied |-> TRUE, tr |-> copy_transfer_data(h, tr, oversize).tr,
             status |-> copy_transfer_data(h, tr, oversize).status]
      [] io_result = "ERROR_GEN_FAILURE" ->
            [copied |-> FALSE, tr |-> tr, status |-> "STALL"]
      [] io_result = "ERROR_SEM_TIMEOUT" ->
            [copied |-> FALSE, tr |-> tr, status |-> "TIMED_OUT"]
      [] OTHER ->
            [copied |-> FALSE, tr |-> tr, status |-> "ERROR"]

\* the status windows_transfer_callback derives, and whether it ran the copy step
transfer_status(h, tr, io_result, oversize) ==
    CASE io_result = "NO_ERROR" ->
            [copied |-> TRUE, tr |-> copy_transfer_data(h, tr, oversize).tr,
             status |-> copy_transfer_data(h, tr, oversize).status]
      [] io_result = "ERROR_GEN_FAILURE" ->
            [copied |-> FALSE, tr |-> tr, status |-> "STALL"]
      [] io_result = "ERROR_SEM_TIMEOUT" ->
            [copied |-> FALSE, tr |-> tr, status |-> "TIMED_OUT"]
      [] io_result = "ERROR_OPERATION_ABORTED" ->
            [copied |-> TRUE, tr |-> copy_transfer_data(h, tr, oversize).tr,
             status |-> IF tr.timed_out THEN "TIMED_OUT" ELSE "CANCELLED"]
      [] OTHER ->
            [copied |-> FALSE, tr |-> tr, status |-> "ERROR"]

\* windows_transfer_callback that copies whatever the OS result is
windows_transfer_callback_always_copies(h, tr, io_result, oversize) ==
    LET s  == transfer_status(h, tr, io_result, oversize)
        h0 == Emit(h, <<"callback", io_result, tr.cancelled>>)
        c  == windows_clear_transfer_priv(Emit(h0, <<"copy">>), s.tr)
    IN  Emit(c.h, <<"report", s.status>>)

\* windows_transfer_callback(itransfer, io_result, io_size): the status is
\* derived, the transfer is torn down, and usbi_handle_transfer_completion
\* reports the status; the "callback" event notes the OS result and whether
\* a cancel had been requested for the transfer
windows_transfer_callback(h, tr, io_result, oversize) ==
    LET s  == transfer_status(h, tr, io_result, oversize)
        h0 == Emit(h, <<"callback", io_result, tr.cancelled>>)
        h1 == IF s.copied THEN Emit(h0, <<"copy">>) ELSE h0
        c  == windows_clear_transfer_priv(h1, s.tr)
    IN  Emit(c.h, <<"report", s.status>>)

\* windows_cancel_transfer: abort_control / abort_transfers of the backends
\* ask the OS to cancel and leave the transfer in flight
windows_cancel_transfer(tr) == [tr EXCEPT !.cancelled = TRUE]

(***************************************************************************)
(* Operations on the device handle and its transfers                       *)
(***************************************************************************)
\* write a handle state back to the variables
StoreH(h) ==
    /\ usb_interface' = h.ui
    /\ interface_handle' = h.ih
    /\ claimed_interfaces' = h.ci
    /\ autoclaim_count' = h.ac
    /\ ev' = h.ev

\* the transfers with one copy of tr taken out / with tr put in
Without(trs, tr) == trs (-) SetToBag({tr})
With(trs, tr) == IF tr.state = "none" THEN trs ELSE trs (+) SetToBag({tr})

\* windows_open: winusbx_open / hid_open / composite_open give every
\* interface that has a path its OS handle; restricted are the HID interfaces
\* of a composite device that could only be opened without read/write access
Open(ok, restricted) ==
    /\ ~opened
    /\ restricted \subseteq {i \in Interfaces : usb_interface[i].path
                                               /\ usb_interface[i].apib = "HID"}
    /\ dev_api = "COMPOSITE" \/ restricted = {}
    /\ ok \/ restricted = {}
    /\ IF ok /\ (dev_api = "COMPOSITE" =>
                    \E i \in Interfaces : usb_interface[i].apib \in {"WINUSBX", "HID"})
       THEN /\ opened' = TRUE
            /\ interface_handle' =
                 [i \in Interfaces |->
                    IF ~usb_interface[i].path THEN interface_handle[i]
                    ELSE IF usb_interface[i].apib = "WINUSBX"
                         THEN [interface_handle[i] EXCEPT !.dev_handle = "OPEN"]
                         ELSE IF usb_interface[i].apib = "HID"
                              THEN [interface_handle[i] EXCEPT !.api_handle = "OPEN"]
                              ELSE interface_handle[i]]
            /\ usb_interface' =
                 [i \in Interfaces |->
                    IF i \in restricted
                    THEN [usb_interface[i] EXCEPT !.restricted = TRUE]
                    ELSE usb_interface[i]]
       ELSE UNCHANGED <<opened, interface_handle, usb_interface>>
    /\ ev' = <<>>
    /\ UNCHANGED <<dev_api, hid, claimed_interfaces, autoclaim_count, transfers>>
    /\ UNCHANGED enumVars
    /\ UNCHANGED procVars

\* libusb_claim_interface called by the application
ClaimInterface(iface, os) ==
    /\ opened
    /\ StoreH([libusb_claim_interface(CurH, iface, os).h EXCEPT !.ev = <<>>])
    /\ UNCHANGED <<dev_api, hid, opened, transfers>>
    /\ UNCHANGED enumVars
    /\ UNCHANGED procVars

\* libusb_release_interface called by the application
ReleaseInterface(iface) ==
    /\ opened
    /\ StoreH([libusb_release_interface(CurH, iface).h EXCEPT !.ev = <<>>])
    /\ UNCHANGED <<dev_api, hid, opened, transfers>>
    /\ UNCHANGED enumVars
    /\ UNCHANGED procVars

\* the application has a transfer left to submit
CanSubmit == opened /\ BagCardinality(transfers) < MaxTransfers

\* submit of a control transfer up to the autoclaim_lock: the backend is
\* selected and get_valid_interface is read; when it finds an interface the
\* submit runs to its end, otherwise the thread goes on to auto_claim
SubmitControl(os) ==
    /\ CanSubmit
    /\ LET api == control_api(CurH)
           cur == get_valid_interface(CurH, api)
           c   == CASE api = "none" -> Failed("NOT_FOUND")
                    [] api \notin {"WINUSBX", "HID"} -> Failed("NOT_SUPPORTED")
                    [] cur < 0 -> [tr |-> Transfer("claiming", api, -1, FALSE, FALSE),
                                   r |-> "NONE"]
                    [] OTHER -> control_io(api, cur, os)
       IN  /\ transfers' = With(transfers, c.tr)
           /\ ev' = IF c.r = "NONE" THEN <<>> ELSE <<<<"submit", c.r>>>>
    /\ UNCHANGED <<dev_api, hid, usb_interface, opened, interface_handle,
                   claimed_interfaces, autoclaim_count>>
    /\ UNCHANGED enumVars
    /\ UNCHANGED procVars

\* the rest of a control submit that found no valid interface: auto_claim
\* under autoclaim_lock, then the I/O request
SubmitControlAutoClaim(tr, osmap, os) ==
    /\ BagIn(tr, transfers)
    /\ tr.state = "claiming"
    /\ \A i \in Interfaces : autoclaim_count[i] < MaxAutoclaim
    /\ LET a == auto_claim(CurH, -1, tr.api, osmap)
           c == IF a.r # "SUCCESS"
                THEN Failed("NOT_FOUND")
                ELSE control_io(tr.api, a.iface, os)
       IN  /\ StoreH(Emit(Emit(a.h, <<"auto_claim", a.r, a.iface>>),
                          <<"submit", c.r>>))
           /\ transfers' = With(Without(transfers, tr), c.tr)
    /\ UNCHANGED <<dev_api, hid, opened>>
    /\ UNCHANGED enumVars
    /\ UNCHANGED procVars

\* windows_submit_transfer for a bulk or interrupt transfer
SubmitBulk(endpoint, os) ==
    /\ CanSubmit
    /\ LET c == submit_bulk_transfer(CurH, endpoint, os)
       IN  /\ transfers' = With(transfers, c.tr)
           /\ ev' = <<<<"submit", c.r>>>>
    /\ UNCHANGED <<dev_api, hid, usb_interface, opened, interface_handle,
                   claimed_interfaces, autoclaim_count>>
    /\ UNCHANGED enumVars
    /\ UNCHANGED procVars

\* libusb_cancel_transfer -> windows_cancel_transfer
CancelTransfer(tr) ==
    /\ BagIn(tr, transfers)
    /\ tr.state = "flying"
    /\ ~tr.cancelled
    /\ transfers' = With(Without(transfers, tr), windows_cancel_transfer(tr))
    /\ ev' = <<>>
    /\ UNCHANGED <<dev_api, hid, usb_interface, opened, interface_handle,
                   claimed_interfaces, autoclaim_count>>
    /\ UNCHANGED enumVars
    /\ UNCHANGED procVars

\* the core's timeout handling: USBI_TRANSFER_TIMED_OUT is set and the
\* transfer is cancelled
Timeout(tr) ==
    /\ BagIn(tr, transfers)
    /\ tr.state = "flying"
    /\ ~tr.timed_out
    /\ transfers' = With(Without(transfers, tr),
                         windows_cancel_transfer([tr EXCEPT !.timed_out = TRUE]))
    /\ ev' = <<>>
    /\ UNCHANGED <<dev_api, hid, usb_interface, opened, interface_handle,
                   claimed_interfaces, autoclaim_count>>
    /\ UNCHANGED enumVars
    /\ UNCHANGED procVars

\* windows_handle_events for the ready descriptor of transfer tr: the OS
\* result is read and windows_handle_callback / windows_transfer_callback
\* run; the transfer leaves the flying list
HandleEvents(tr, io_result, oversize) ==
    /\ BagIn(tr, transfers)
    /\ tr.state = "flying"
    /\ oversize => tr.hid_buffer /\ tr.hid_dest
    /\ StoreH(windows_transfer_callback(CurH, tr, io_result, oversize))
    /\ transfers' = Without(transfers, tr)
    /\ UNCHANGED <<dev_api, hid, opened>>
    /\ UNCHANGED enumVars
    /\ UNCHANGED procVars

(***************************************************************************)
(* Device identity: the htab_* string table                                *)
(***************************************************************************)
RECURSIVE isprime(_, _)
\* isprime(number): the divider loop from divider upwards, then the test
isprime(number, divider) ==
    IF divider * divider < number /\ number % divider # 0
    THEN isprime(number, divider + 2)
    ELSE number % divider # 0

RECURSIVE NextPrime(_)
\* the loop of htab_create: while (!isprime(nel)) nel += 2
NextPrime(nel) == IF isprime(nel, 3) THEN nel ELSE NextPrime(nel + 2)

\* htab_create(ctx, HTAB_SIZE): nel |= 1, then the first prime not smaller
htab_size == NextPrime(IF HTAB_SIZE % 2 = 0 THEN HTAB_SIZE + 1 ELSE HTAB_SIZE)

\* the device instance id of device d as a string of character codes
DeviceIdString(d) == <<64 + d>>

RECURSIVE HashValue(_, _)
\* the main hash value of htab_hash: r = ((r << 5) + r) + c over the
\* characters; the strings here have one or two characters, for which r
\* stays far below the width of an unsigned long
HashValue(r, sz) ==
    IF sz = <<>> THEN r
    ELSE HashValue(r * 33 + Head(sz), Tail(sz))

\* one htab_entry
NoEntry == [used |-> 0, str |-> <<>>]

\* htab_create: htab_size + 1 zeroed entries
EmptyTable == [idx \in 0..htab_size |-> NoEntry]

\* the table seen by htab_hash
HTab(table, filled) == [table |-> table, filled |-> filled]

RECURSIVE htab_probe(_, _, _, _, _)
\* the do-while loop of htab_hash: the second hash steps through the
\* indexes until the string, an unused entry or the first index is met
htab_probe(table, idx, hval, hval2, str) ==
    LET nidx == IF idx <= hval2 THEN htab_size + idx - hval2 ELSE idx - hval2
    IN  IF nidx = hval THEN [found |-> FALSE, idx |-> nidx]
        ELSE IF table[nidx].used = hval /\ table[nidx].str = str
             THEN [found |-> TRUE, idx |-> nidx]
             ELSE IF table[nidx].used # 0
                  THEN htab_probe(table, nidx, hval, hval2, str)
                  ELSE [found |-> FALSE, idx |-> nidx]

\* htab_hash up to "Not found => New entry": whether the string is stored,
\* the index the search ended on, and the table hash of the string
htab_search(t, str) ==
    LET r0    == HashValue(5381, str)
        r     == IF r0 = 0 THEN 1 ELSE r0
        hv    == r % htab_size
        hval  == IF hv = 0 THEN 1 ELSE hv
        hval2 == 1 + (hval % (htab_size - 2))
        first == t.table[hval]
        hit   == first.used = hval /\ first.str = str
        p     == IF first.used # 0 /\ ~hit
                 THEN htab_probe(t.table, hval, hval, hval2, str)
                 ELSE [found |-> hit, idx |-> hval]
    IN  [found |-> p.found, idx |-> p.idx, hval |-> hval]

\* a hit that counts the entry once more
htab_existing_refills(t, p) ==
    [t |-> [t EXCEPT !.filled = @ + 1], id |-> p.idx]

\* a hit that answers with the index after the entry
htab_existing_next(t, p) == [t |-> t, id |-> (p.idx % htab_size) + 1]

\* htab_hash, "existing hash": return idx
htab_existing(t, p) == [t |-> t, id |-> p.idx]

\* htab_hash under htab_write_mutex: the entry at idx is freed and written
htab_store(t, p, str, nomem) ==
    IF nomem
    THEN [t |-> [t EXCEPT !.table[p.idx] = NoEntry], id |-> 0]
    ELSE [t |-> [table  |-> [t.table EXCEPT
                               ![p.idx] = [used |-> p.hval, str |-> str]],
                 filled |-> t.filled + 1],
          id |-> p.idx]

\* a new entry that is written without the test for a full table
htab_new_entry_unchecked(t, p, str, nomem) ==
    IF nomem
    THEN [t |-> [t EXCEPT !.table[p.idx] = NoEntry], id |-> 0]
    ELSE [t |-> [table  |-> [t.table EXCEPT
                               ![p.idx] = [used |-> p.hval, str |-> str]],
                 filled |-> t.filled + 1],
          id |-> p.idx]

\* a new entry that stays in the table when the copy cannot be allocated
htab_new_entry_keeps_failed(t, p, str, nomem) ==
    IF t.filled >= htab_size THEN [t |-> t, id |-> 0]
    ELSE [t |-> [table  |-> [t.table EXCEPT
                               ![p.idx] = [used |-> p.hval, str |-> str]],
                 filled |-> IF nomem THEN t.filled ELSE t.filled + 1],
          id |-> IF nomem THEN 0 ELSE p.idx]

\* htab_hash from "Not found => New entry" on; nomem is the failure of the
\* calloc of the stored copy
htab_new_entry(t, p, str, nomem) ==
    IF t.filled >= htab_size THEN [t |-> t, id |-> 0]
    ELSE htab_store(t, p, str, nomem)

\* htab_hash(str): the table afterwards and the identifier returned
htab_hash(t, str, nomem) ==
    IF htab_search(t, str).found
    THEN htab_existing(t, htab_search(t, str))
    ELSE htab_new_entry(t, htab_search(t, str), str, nomem)

(***************************************************************************)
(* What the OS reports about the devices (SetupAPI, configuration manager, *)
(* hub ioctl): device 1 is a root hub, device 2 a hub on it, the others    *)
(* are leaf devices on one of the two hubs                                 *)
(***************************************************************************)
DeviceIds == 1..NumDevices

\* the device is listed under GUID_DEVINTERFACE_USB_HUB
OsIsHub(d) == d <= 2

\* get_parent_device_id: hubs 1 and 2 are the root hubs of two host
\* controllers (0: the parent is no USB device), the devices hang on them
OsParent(d) == IF OsIsHub(d) THEN 0 ELSE 1 + (d % 2)

\* SPDRP_ADDRESS: the port on the parent hub
OsPort(d) == IF OsIsHub(d) THEN 0 ELSE d

\* the device interface classes the device is listed under
OsGuids(d) == IF OsIsHub(d) THEN {"HUB"} ELSE {"DEVICE"}

\* get_api_type: the backend its driver selects
OsApi(d) ==
    IF OsIsHub(d) THEN "HUB"
    ELSE IF d % 3 = 0 THEN "COMPOSITE" ELSE IF d % 3 = 1 THEN "WINUSBX" ELSE "HID"

\* conn_info.DeviceAddress: every third device is reported with the largest
\* 8-bit address
OsDeviceAddress(d) == IF d % 3 = 0 THEN 255 ELSE d

\* the instance id of the host controller of root hub d
OsHostController(d) == <<80, 64 + d>>

(***************************************************************************)
(* Device nodes and windows_enumerate_device                               *)
(***************************************************************************)
\* no device: the NULL libusb_device pointer
NoDevice == [session_id |-> 0, device_id |-> 0, apib |-> "NONE",
             bus_number |-> 0, device_address |-> 0, port_number |-> 0,
             parent_dev |-> 0, depth |-> 0]

\* usbi_alloc_device + windows_device_priv_init: a fresh node for device d;
\* parent_dev holds the device the parent pointer refers to
NewDevice(session_id, d) ==
    [NoDevice EXCEPT !.session_id = session_id, !.device_id = d,
                     !.apib = "UNSUPPORTED"]

\* usbi_get_device_by_session_id: the first node of the registry with this
\* session id, or NULL
usbi_get_device_by_session_id(devs, session_id) ==
    LET S == {k \in DOMAIN devs : devs[k].session_id = session_id}
    IN  IF S = {} THEN NoDevice ELSE devs[Min(S)]

\* usbi_connect_device: the node joins the registry
usbi_connect_device(devs, dev) == Append(devs, dev)

\* usbi_disconnect_device: the node leaves the registry
usbi_disconnect_device(devs, dev) ==
    LET k == Min({n \in DOMAIN devs : devs[n] = dev})
    IN  [n \in 1..(Len(devs) - 1) |-> IF n < k THEN devs[n] ELSE devs[n + 1]]

\* the steps of an enumeration at which the OS or the allocator can fail
\* ("state": install state or port unreadable or bad; "detail": interface
\* detail or one of the string copies; "hub": the hub cannot be opened or
\* queried, or reports no device on the port)
Faults == {"none", "devinfo", "state", "parent_id", "alloc", "detail",
           "hcd", "hub", "interfaces"}

\* the state windows_enumerate_device works on: identity table, host
\* controller list, registry of the context, the events of this call, and
\* whether the calling thread holds active_contexts_lock
EState(t, hc, devs, e) ==
    [t |-> t, hc |-> hc, devs |-> devs, ev |-> e,
     active_contexts_lock |-> FALSE]

\* a bus number derived from the order of the latest sightings: the host
\* controller seen last is moved to the front of host_controller[]
force_hcd_device_descriptor_latest_first(hc, dev, fault) ==
    LET hcd_device_id == OsHostController(dev.device_id)
    IN  [hc  |-> <<hcd_device_id>> \o SelectSeq(hc, LAMBDA h : h # hcd_device_id),
         dev |-> [dev EXCEPT !.bus_number = 1]]

\* the part of force_hcd_device_descriptor that assigns the bus number: the
\* position of the host controller's instance id in host_controller[]
force_hcd_device_descriptor(hc, dev, fault) ==
    LET hcd_device_id == OsHostController(dev.device_id)
        S     == {k \in DOMAIN hc : hc[k] = hcd_device_id}
        index == IF S = {} THEN Len(hc) ELSE Min(S) - 1
    IN  IF fault = "hcd" /\ S = {}
        THEN [hc |-> hc, dev |-> dev]
        ELSE IF index >= MAX_USB_HOST_CONTROLLERS
             THEN [hc |-> hc, dev |-> dev]
             ELSE [hc  |-> IF S = {} THEN Append(hc, hcd_device_id) ELSE hc,
                   dev |-> [dev EXCEPT !.bus_number = (index + 1) % 256]]

\* a device that takes the bus of the first host controller, whatever hub
\* it hangs on
bus_of_first_controller(parent) == 1

\* dev->bus_number = parent_dev->bus_number
bus_of_parent(parent) == parent.bus_number

\* dev->device_address = (uint8_t)conn_info.DeviceAddress + 1, stored in
\* the uint8_t field
address_from_hub(DeviceAddress) == ((DeviceAddress % 256) + 1) % 256

\* init_device(dev, parent_dev, port_number)
init_device(hc, dev, parent, port_number, fault) ==
    IF port_number = 0
    THEN IF parent # NoDevice
         THEN [hc |-> hc, dev |-> dev, r |-> "OTHER"]
         ELSE LET f == force_hcd_device_descriptor(
                          hc, [dev EXCEPT !.device_address = 1,
                                          !.port_number = 0, !.depth = 0],
                          fault)
              IN  [hc |-> f.hc, dev |-> f.dev,
                   r |-> IF f.dev.bus_number = 0 THEN "NOT_FOUND" ELSE "SUCCESS"]
    ELSE IF parent = NoDevice \/ parent.apib # "HUB" \/ parent.bus_number = 0
         THEN [hc |-> hc, dev |-> dev, r |-> "NOT_FOUND"]
         ELSE LET d1 == [dev EXCEPT !.bus_number = bus_of_parent(parent),
                                    !.port_number = port_number,
                                    !.depth = parent.depth + 1]
              IN  IF dev.device_address # 0
                  THEN [hc |-> hc,
                        dev |-> [d1 EXCEPT !.parent_dev = parent.device_id],
                        r |-> "SUCCESS"]
                  ELSE IF fault = "hub"
                       THEN [hc |-> hc, dev |-> d1, r |-> "NO_DEVICE"]
                       ELSE [hc |-> hc,
                             dev |-> [d1 EXCEPT
                                        !.device_address =
                                           address_from_hub(
                                              OsDeviceAddress(dev.device_id)),
                                        !.parent_dev = parent.device_id],
                             r |-> "SUCCESS"]

\* a fault of this call: the device it strikes and the step that fails
Fault(d, step) == [dev |-> d, step |-> step]

\* the call returns before a node was allocated
enumerate_return(E, d, session_id, step) ==
    [E EXCEPT !.ev = Append(@, <<"fail", d, session_id, step>>)]

\* the cleanup label with a node that was allocated and not connected:
\* libusb_unref_device destroys it
enumerate_cleanup(E, dev, step) ==
    [E EXCEPT !.ev = Append(@, <<"discard", dev.device_id, dev.session_id, step>>)]

RECURSIVE windows_enumerate_device(_, _, _, _, _)
RECURSIVE enumerate_unknown(_, _, _, _, _, _)

\* windows_enumerate_device from alloc_device on: parent is the resolved
\* parent node, NoDevice for a root hub
enumerate_alloc_device(E, session_id, d, guid, parent, f) ==
    IF f = "alloc"
    THEN enumerate_return(E, d, session_id, "alloc")
    ELSE LET dev0 == NewDevice(session_id, d)
             E0   == [E EXCEPT !.ev = Append(@, <<"alloc", d, session_id>>)]
         IN  IF f = "detail"
             THEN enumerate_cleanup(E0, dev0, f)
             ELSE LET i == init_device(E0.hc, [dev0 EXCEPT !.apib = OsApi(d)],
                                       parent, OsPort(d) % 256, f)
                      E1 == [E0 EXCEPT !.hc = i.hc]
                  IN  IF i.r # "SUCCESS"
                      THEN enumerate_cleanup(E1, i.dev, "init_device")
                      ELSE IF OsApi(d) \in {"COMPOSITE", "HID"} /\ f = "interfaces"
                           THEN enumerate_cleanup(E1, i.dev, f)
                           ELSE [E1 EXCEPT
                                   !.devs = usbi_connect_device(@, i.dev),
                                   !.ev = Append(@, <<"connect", d, session_id,
                                                    E1.active_contexts_lock>>)]

\* windows_enumerate_device for a session id the registry does not have
enumerate_unknown(E, session_id, d, guid, fault, nomem) ==
    LET f == IF fault.dev = d THEN fault.step ELSE "none"
    IN  IF f = "devinfo" \/ d \notin os_present
        THEN enumerate_return(E, d, session_id, "devinfo")
        ELSE IF f = "state"
        THEN enumerate_return(E, d, session_id, f)
        ELSE IF OsPort(d) = 0 /\ guid = "HUB"
        THEN enumerate_alloc_device(E, session_id, d, guid, NoDevice, f)
        ELSE IF f = "parent_id"
        THEN enumerate_return(E, d, session_id, f)
        ELSE LET p  == htab_hash(E.t, DeviceIdString(OsParent(d)), nomem)
                 E1 == [E EXCEPT !.t = p.t]
                 E2 == IF usbi_get_device_by_session_id(E1.devs, p.id) = NoDevice
                       THEN windows_enumerate_device(E1, OsParent(d), "HUB",
                                                     fault, nomem)
                       ELSE E1
                 parent_dev == usbi_get_device_by_session_id(E2.devs, p.id)
             IN  IF parent_dev = NoDevice
                 THEN enumerate_return(E2, d, session_id, "parent")
                 ELSE enumerate_alloc_device(E2, session_id, d, guid, parent_dev, f)

\* windows_enumerate_device without the lookup of the session id
windows_enumerate_device_again(E, d, guid, fault, nomem) ==
    LET s  == htab_hash(E.t, DeviceIdString(d), nomem)
        E1 == [E EXCEPT !.t = s.t,
                        !.ev = Append(@, <<"enumerate", d, guid, s.id>>)]
    IN  enumerate_unknown(E1, s.id, d, guid, fault, nomem)

\* windows_enumerate_device(ctx, device_id, guid)
windows_enumerate_device(E, d, guid, fault, nomem) ==
    LET s  == htab_hash(E.t, DeviceIdString(d), nomem)
        E1 == [E EXCEPT !.t = s.t,
                        !.ev = Append(@, <<"enumerate", d, guid, s.id>>)]
    IN  IF usbi_get_device_by_session_id(E1.devs, s.id) # NoDevice
        THEN [E1 EXCEPT !.ev = Append(@, <<"known", d, s.id>>)]
        ELSE enumerate_unknown(E1, s.id, d, guid, fault, nomem)

\* windows_hotplug_enumerate(device_id, guid), for the one context: the
\* listener holds active_contexts_lock around windows_enumerate_device
windows_hotplug_enumerate(E, d, guid, fault, nomem) ==
    [windows_enumerate_device([E EXCEPT !.active_contexts_lock = TRUE],
                              d, guid, fault, nomem)
       EXCEPT !.active_contexts_lock = FALSE]

\* windows_hotplug_disconnect(device_id), for the one context: the session
\* id is computed first, the lookup and the disconnection run under
\* active_contexts_lock
windows_hotplug_disconnect(E, d, nomem) ==
    LET s   == htab_hash(E.t, DeviceIdString(d), nomem)
        E1  == [E EXCEPT !.t = s.t, !.active_contexts_lock = TRUE]
        dev == usbi_get_device_by_session_id(E1.devs, s.id)
        E2  == IF dev # NoDevice
               THEN [E1 EXCEPT !.devs = usbi_disconnect_device(@, dev),
                               !.ev = Append(@, <<"disconnect", d, s.id,
                                                  E1.active_contexts_lock>>)]
               ELSE [E1 EXCEPT !.ev = Append(@, <<"not_found", d, s.id>>)]
    IN  [E2 EXCEPT !.active_contexts_lock = FALSE]

(***************************************************************************)
(* windows_scan_devices                                                    *)
(***************************************************************************)
\* the devices get_dev_info_data_by_guid lists for a class, by index
Candidates(guid) == {d \in os_present : guid \in OsGuids(d)}

RECURSIVE Nth(_, _)
\* the n-th smallest element of S
Nth(S, n) == IF n = 1 THEN Min(S) ELSE Nth(S \ {Min(S)}, n - 1)

\* position of a scan: the pass, the index i, and a record of the candidates
\* so far: those passed to windows_enumerate_device, those skipped for want
\* of a device id, and those whose enumeration failed
ScanAt(pass, i, passed, skipped, failed) ==
    [pass |-> pass, i |-> i, passed |-> passed, skipped |-> skipped,
     failed |-> failed]

NoScan == ScanAt("idle", 0, {}, {}, {})

\* the call whose events are e ended without connecting device d
EnumerationFailed(e, d) ==
    /\ e # <<>>
    /\ e[Len(e)][1] \in {"fail", "discard"}
    /\ e[Len(e)][2] = d

\* the guid of a pass
PassGuid(pass) == IF pass = "hub" THEN "HUB" ELSE "DEVICE"

\* a scan loop that gives up at the first candidate it cannot enumerate
scan_stop_on_failure(sc, d, E) ==
    IF EnumerationFailed(E.ev, d)
    THEN [sc EXCEPT !.pass = "done", !.i = 0,
                    !.passed = @ \cup {<<d, PassGuid(sc.pass)>>},
                    !.failed = @ \cup {<<d, PassGuid(sc.pass)>>}]
    ELSE [sc EXCEPT !.i = @ + 1,
                    !.passed = @ \cup {<<d, PassGuid(sc.pass)>>}]

\* the position after windows_enumerate_device has returned for candidate d:
\* the function returns nothing and the loop goes on to the next index
scan_continue(sc, d, E) ==
    [sc EXCEPT !.i = @ + 1,
               !.passed = @ \cup {<<d, PassGuid(sc.pass)>>},
               !.failed = IF EnumerationFailed(E.ev, d)
                          THEN @ \cup {<<d, PassGuid(sc.pass)>>} ELSE @]

\* the end of a pass: get_dev_info_data_by_guid finds no candidate at index i
scan_break(sc) ==
    [sc EXCEPT !.pass = IF @ = "hub" THEN "dev" ELSE "done", !.i = 0]

\* one iteration of the loop of the current pass of windows_scan_devices;
\* noid is the failure of get_device_id for the candidate
windows_scan_devices(E, sc, noid, fault, nomem) ==
    LET guid == PassGuid(sc.pass)
    IN  IF sc.i >= Cardinality(Candidates(guid))
        THEN [E |-> E, sc |-> scan_break(sc)]
        ELSE LET d == Nth(Candidates(guid), sc.i + 1)
             IN  IF noid
                 THEN [E  |-> E,
                       sc |-> [sc EXCEPT !.i = @ + 1,
                                         !.skipped = @ \cup {<<d, guid>>}]]
                 ELSE LET E1 == windows_enumerate_device(E, d, guid, fault, nomem)
                      IN  [E |-> E1, sc |-> scan_continue(sc, d, E1)]

(***************************************************************************)
(* The devices a handle can be opened on, as enumeration leaves them        *)
(***************************************************************************)
\* priv->hid: the NULL pointer, and a hid_device_priv with nb_interfaces
NoHid == <<>>
Hid(nb_interfaces) == <<nb_interfaces>>

\* windows_device_priv_init: an empty interface slot
EmptySlot == [path |-> FALSE, apib |-> "UNSUPPORTED", endpoint |-> {},
              restricted |-> FALSE]

Slot(api) == [path |-> TRUE, apib |-> api, endpoint |-> {}, restricted |-> FALSE]

\* windows_enumerate_device, default case: slot 0 has the device path and
\* every slot the device's backend
WinusbxDevice ==
    [i \in Interfaces |-> [Slot("WINUSBX") EXCEPT !.path = (i = 0)]]

\* set_hid_interface: slots 0..nb-1 hold the HID collections
HidDevice(nb) ==
    [i \in Interfaces |-> IF i < nb THEN Slot("HID") ELSE EmptySlot]

\* set_composite_interface / set_hid_interface on a composite device: a HID
\* function in slot 0, a WinUSB function in slot 1
CompositeDevice ==
    [i \in Interfaces |->
        IF i = 0 THEN Slot("HID") ELSE IF i = 1 THEN Slot("WINUSBX") ELSE EmptySlot]

\* a device handle nobody has opened: zeroed handle_priv
ClosedHandle ==
    /\ opened = FALSE
    /\ interface_handle = [i \in Interfaces |->
                             [dev_handle |-> "INVALID", api_handle |-> "INVALID"]]
    /\ claimed_interfaces = {}
    /\ autoclaim_count = [i \in Interfaces |-> 0]
    /\ transfers = EmptyBag
    /\ ev = <<>>

InitDevice ==
    \/ dev_api = "WINUSBX" /\ usb_interface = WinusbxDevice /\ hid = NoHid
    \/ dev_api = "HID" /\ usb_interface = HidDevice(1) /\ hid = Hid(1)
    \/ dev_api = "COMPOSITE" /\ usb_interface = CompositeDevice /\ hid = Hid(0)

\* the topology builder at rest
EnumIdle ==
    /\ htab_table = EmptyTable
    /\ htab_filled = 0
    /\ host_controller = <<>>
    /\ usb_devs = <<>>
    /\ scan = NoScan

InitTransfers ==
    InitDevice /\ ClosedHandle /\ EnumIdle /\ os_present = {} /\ ProcIdle

\* OS answers to the claims an auto_claim for api_type can make
ClaimOutcomes(api_type) ==
    {osmap \in [Interfaces -> AutoClaimOs] :
        \A i \in Interfaces : usb_interface[i].apib # api_type => osmap[i] = "ok"}

\* OS answers a control submit can meet before it takes the autoclaim_lock
ControlOs ==
    IF get_valid_interface(CurH, control_api(CurH)) < 0 THEN {"sync"} ELSE SubmitOs

\* OS answers a bulk submit to endpoint e can meet
BulkOs(e) ==
    IF interface_by_endpoint(CurH, e) < 0 THEN {"sync"} ELSE SubmitOs

NextTransfers ==
    \/ \E ok \in BOOLEAN, restricted \in SUBSET Interfaces : Open(ok, restricted)
    \/ \E i \in Interfaces, os \in ClaimOs : ClaimInterface(i, os)
    \/ \E i \in Interfaces : ReleaseInterface(i)
    \/ \E os \in ControlOs : SubmitControl(os)
    \/ \E tr \in BagToSet(transfers) :
          \E osmap \in ClaimOutcomes(tr.api), os \in SubmitOs :
             SubmitControlAutoClaim(tr, osmap, os)
    \/ \E e \in Endpoints : \E os \in BulkOs(e) : SubmitBulk(e, os)
    \/ \E tr \in BagToSet(transfers) : CancelTransfer(tr)
    \/ \E tr \in BagToSet(transfers) : Timeout(tr)
    \/ \E tr \in BagToSet(transfers), io \in IoResults, oversize \in BOOLEAN :
          HandleEvents(tr, io, oversize)

SpecTransfers == InitTransfers /\ [][NextTransfers]_vars

(***************************************************************************)
(* Properties of the transfer pipeline                                     *)
(***************************************************************************)
\* event e is among the events s of a step
In(s, e) == \E k \in DOMAIN s : s[k] = e
\* positions of the events of kind k in s
At(s, k) == {n \in DOMAIN s : s[n][1] = k}
\* how often event e occurs in s
Occurrences(s, e) == Cardinality({n \in DOMAIN s : s[n] = e})

\* libusb_transfer_status values, and the backend error code that
\* unsupported_copy_transfer_data hands back
Statuses == {"COMPLETED", "ERROR", "TIMED_OUT", "CANCELLED", "STALL",
             "NO_DEVICE", "OVERFLOW", "NOT_SUPPORTED"}

\* the statuses reported by the events s
Reported(s) == {st \in Statuses : In(s, <<"report", st>>)}

\* some transfer in flight is bound to interface i
FlyingOn(trs, i) ==
    \E tr \in BagToSet(trs) : tr.state = "flying" /\ tr.interface_number = i

\* this step is the completion of transfer tr
Completes(tr) ==
    /\ BagIn(tr, transfers)
    /\ tr.state = "flying"
    /\ At(ev', "callback") # {}
    /\ transfers' = Without(transfers, tr)

\* C1: an auto-claimed interface is not released (release_interface of the
\* backend is not invoked by a teardown) while another in-flight transfer
\* bound to that interface has not been torn down
C1_NoReleaseWhileInUse ==
    [][\A i \in Interfaces :
          In(ev', <<"release", i>>) => ~FlyingOn(transfers', i)]_vars

\* windows_handle_events handles the completion of a transfer that has a
\* cancel request
CompleteCancelled ==
    \E tr \in BagToSet(transfers) :
       /\ tr.cancelled
       /\ \E io \in IoResults, oversize \in BOOLEAN : HandleEvents(tr, io, oversize)

\* the pipeline with an application that leaves claiming to auto_claim
NextPipeline ==
    \/ \E ok \in BOOLEAN, restricted \in SUBSET Interfaces : Open(ok, restricted)
    \/ \E os \in ControlOs : SubmitControl(os)
    \/ \E tr \in BagToSet(transfers) :
          \E osmap \in ClaimOutcomes(tr.api), os \in SubmitOs :
             SubmitControlAutoClaim(tr, osmap, os)
    \/ \E e \in Endpoints : \E os \in BulkOs(e) : SubmitBulk(e, os)
    \/ \E tr \in BagToSet(transfers) : CancelTransfer(tr)
    \/ \E tr \in BagToSet(transfers) : Timeout(tr)
    \/ \E tr \in BagToSet(transfers), io \in IoResults, oversize \in BOOLEAN :
          HandleEvents(tr, io, oversize)

\* the event loop handles every descriptor that stays ready, so the
\* completion of a cancelled transfer is not put off forever
SpecPipelineFair ==
    InitTransfers /\ [][NextPipeline]_vars /\ WF_vars(CompleteCancelled)

\* a transfer with a cancel request is in flight
CancelPending ==
    \E tr \in BagToSet(transfers) : tr.state = "flying" /\ tr.cancelled

\* the last step completed a transfer that had a cancel request
CancelledCompletion ==
    \E io \in IoResults : In(ev, <<"callback", io, TRUE>>)

OsStatus(io_result, timed_out) ==
    CASE io_result = "NO_ERROR" -> "COMPLETED"
      [] io_result = "ERROR_GEN_FAILURE" -> "STALL"
      [] io_result = "ERROR_SEM_TIMEOUT" -> "TIMED_OUT"
      [] io_result = "ERROR_OPERATION_ABORTED" ->
            IF timed_out THEN "TIMED_OUT" ELSE "CANCELLED"
      [] OTHER -> "ERROR"

AutoClaimed(i) == In(ev', <<"auto_claim", "SUCCESS", i>>)

\* this step tears down a transfer bound to interface i
TearsDown(i) ==
    \E tr \in BagToSet(transfers) : Completes(tr) /\ tr.interface_number = i

C4_NotFoundKeepsCounts ==
    [][/\ In(ev', <<"auto_claim", "NOT_FOUND", USB_MAXINTERFACES>>) =>
             /\ In(ev', <<"submit", "NOT_FOUND">>)
             /\ autoclaim_count' = autoclaim_count
             /\ BagCardinality(transfers') < BagCardinality(transfers)
       /\ \A e \in Endpoints, os \in SubmitOs :
             interface_by_endpoint(CurH, e) < 0 /\ SubmitBulk(e, os) =>
                /\ ev' = <<<<"submit", "NOT_FOUND">>>>
                /\ autoclaim_count' = autoclaim_count
                /\ transfers' = transfers]_vars

\* auto_claim has just failed on a handle that has an auto-claimed interface
C4_Witness ==
    /\ In(ev, <<"auto_claim", "NOT_FOUND", USB_MAXINTERFACES>>)
    /\ In(ev, <<"submit", "NOT_FOUND">>)
    /\ \E i \in Interfaces : autoclaim_count[i] > 0

\* the OS result the completion of this step was handled with
IoResultOf(s) == {io \in IoResults : \E c \in BOOLEAN : In(s, <<"callback", io, c>>)}

\* C5 as stated: every completion reports exactly one status, the one
\* derived from the OS result, whatever the copy step returns
C5_StatusFromOsResult ==
    [][\A tr \in BagToSet(transfers) :
          Completes(tr) =>
             /\ Cardinality(At(ev', "report")) = 1
             /\ \A io \in IoResultOf(ev') :
                   Reported(ev') = {OsStatus(io, tr.timed_out)}]_vars

\* C5: every completion reports exactly one status; for an OS result other
\* than success it is the status derived from the OS result, whatever the
\* copy step and the teardown return; for a successful OS result it is the
\* status the copy step returns, Completed or (HID, more data than expected)
\* Overflow
C5_StatusFromOsResultOrCopy ==
    [][\A tr \in BagToSet(transfers) :
          Completes(tr) =>
             /\ Cardinality(At(ev', "report")) = 1
             /\ \A io \in IoResultOf(ev') :
                   IF io = "NO_ERROR"
                   THEN /\ Reported(ev') \subseteq {"COMPLETED", "OVERFLOW"}
                        /\ "OVERFLOW" \in Reported(ev') =>
                              tr.hid_buffer /\ tr.hid_dest
                   ELSE Reported(ev') = {OsStatus(io, tr.timed_out)}]_vars

\* a request the OS completed without error has just been reported as an
\* overflow by the copy step
C5_Witness ==
    /\ In(ev, <<"callback", "NO_ERROR", FALSE>>)
    /\ In(ev, <<"report", "OVERFLOW">>)

\* C6 as stated: the status reported for a completed transfer is one of
\* Completed, Stall, TimedOut, Cancelled, Error
C6_FixedVocabulary ==
    Reported(ev) \subseteq {"COMPLETED", "STALL", "TIMED_OUT", "CANCELLED", "ERROR"}

\* C6: the status reported for a completed transfer is one of Completed,
\* Stall, TimedOut, Cancelled, Error, Overflow; Overflow only for a request
\* the OS completed without error on a device with HID interfaces
C6_VocabularyWithOverflow ==
    /\ Reported(ev) \subseteq
          {"COMPLETED", "STALL", "TIMED_OUT", "CANCELLED", "ERROR", "OVERFLOW"}
    /\ "OVERFLOW" \in Reported(ev) =>
          /\ IoResultOf(ev) = {"NO_ERROR"}
          /\ dev_api \in {"HID", "COMPOSITE"}

\* the HID function of a composite device has just reported an overflow
C6_Witness ==
    /\ dev_api = "COMPOSITE"
    /\ In(ev, <<"report", "OVERFLOW">>)

\* the copy step of the completion in s ran, and ran before the report
CopiedBeforeReport(s) ==
    /\ At(s, "copy") # {}
    /\ \A c \in At(s, "copy"), r \in At(s, "report") : c < r

\* C7 as stated: every completion, whatever the OS result, runs the copy
\* step before it reports the status
C7_AlwaysCopies ==
    At(ev, "callback") # {} => CopiedBeforeReport(ev)

\* C7: a completion runs the copy step, before it reports the status, when
\* the OS result is success or ERROR_OPERATION_ABORTED (a cancelled or timed
\* out request), and does not run it for any other OS result
C7_CopiesOnSuccessAndAbort ==
    At(ev, "callback") # {} =>
       IF IoResultOf(ev) \subseteq {"NO_ERROR", "ERROR_OPERATION_ABORTED"}
       THEN CopiedBeforeReport(ev)
       ELSE At(ev, "copy") = {}

\* an aborted request has just been completed: its data was copied and then
\* its status reported
C7_Witness ==
    /\ IoResultOf(ev) = {"ERROR_OPERATION_ABORTED"}
    /\ CopiedBeforeReport(ev)
    /\ At(ev, "report") # {}

(***************************************************************************)
(* Enumeration: operations of the OS, the hotplug listener and the scan    *)
(***************************************************************************)
CurE == EState(HTab(htab_table, htab_filled), host_controller, usb_devs, <<>>)

\* write an enumeration state back to the variables
StoreE(E) ==
    /\ htab_table' = E.t.table
    /\ htab_filled' = E.t.filled
    /\ host_controller' = E.hc
    /\ usb_devs' = E.devs
    /\ ev' = E.ev

\* windows_init has returned: the context is active
Active == scan.pass = "active"

\* a device is plugged in: the OS lists it from now on
OsArrive(d) ==
    /\ Active
    /\ d \notin os_present
    /\ os_present' = os_present \cup {d}
    /\ ev' = <<>>
    /\ UNCHANGED <<htab_table, htab_filled, host_controller, usb_devs, scan>>
    /\ UNCHANGED xferVars
    /\ UNCHANGED procVars

\* a device is unplugged: the OS lists it no more
OsLeave(d) ==
    /\ Active
    /\ d \in os_present /\ OsPort(d) # 0
    /\ os_present' = os_present \ {d}
    /\ ev' = <<>>
    /\ UNCHANGED <<htab_table, htab_filled, host_controller, usb_devs, scan>>
    /\ UNCHANGED xferVars
    /\ UNCHANGED procVars

\* windows_hotplug_enumerate for an arrival notification of device d
HotplugArrival(d, guid, fault, nomem) ==
    /\ Active
    /\ guid \in OsGuids(d)
    /\ \E E \in {windows_hotplug_enumerate(CurE, d, guid, fault, nomem)} :
          StoreE(E)
    /\ UNCHANGED <<os_present, scan>>
    /\ UNCHANGED xferVars
    /\ UNCHANGED procVars

\* windows_hotplug_disconnect for a removal notification of device d
HotplugRemoval(d, nomem) ==
    /\ Active
    /\ \E E \in {windows_hotplug_disconnect(CurE, d, nomem)} : StoreE(E)
    /\ UNCHANGED <<os_present, scan>>
    /\ UNCHANGED xferVars
    /\ UNCHANGED procVars

\* windows_init calls windows_scan_devices
ScanStart ==
    /\ scan.pass = "idle"
    /\ scan' = [scan EXCEPT !.pass = "hub"]
    /\ ev' = <<>>
    /\ UNCHANGED <<htab_table, htab_filled, host_controller, usb_devs, os_present>>
    /\ UNCHANGED xferVars
    /\ UNCHANGED procVars

\* windows_scan_devices and windows_init return
ScanReturn ==
    /\ scan.pass = "done"
    /\ scan' = ScanAt("active", 0, {}, {}, {})
    /\ ev' = <<>>
    /\ UNCHANGED <<htab_table, htab_filled, host_controller, usb_devs, os_present>>
    /\ UNCHANGED xferVars
    /\ UNCHANGED procVars

\* one iteration of windows_scan_devices
ScanStep(noid, fault, nomem) ==
    /\ scan.pass \in {"hub", "dev"}
    /\ \E s \in {windows_scan_devices(CurE, scan, noid, fault, nomem)} :
          StoreE(s.E) /\ scan' = s.sc
    /\ UNCHANGED os_present
    /\ UNCHANGED xferVars
    /\ UNCHANGED procVars

InitEnum ==
    /\ dev_api = "WINUSBX" /\ usb_interface = WinusbxDevice /\ hid = NoHid
    /\ ClosedHandle
    /\ EnumIdle
    /\ os_present \in {S \in SUBSET DeviceIds : 1 \in S}
    /\ ProcIdle

RECURSIVE Lineage(_)
\* device d and the hubs between it and the host controller
Lineage(d) == IF d = 0 THEN {} ELSE {d} \cup Lineage(OsParent(d))

\* the steps that exist in the enumeration of device x
StepsOf(x) ==
    {"devinfo", "state", "alloc", "detail"}
    \cup (IF OsPort(x) = 0 THEN {"hcd"} ELSE {"parent_id", "hub"})
    \cup (IF OsApi(x) \in {"COMPOSITE", "HID"} THEN {"interfaces"} ELSE {})

\* the registry has a node of device x under an identifier of the table
Registered(x) ==
    \E k \in DOMAIN usb_devs :
       usb_devs[k].device_id = x /\ usb_devs[k].session_id # 0

\* the identity table has stored the instance id of device x
Stored(x) ==
    \E idx \in DOMAIN htab_table : htab_table[idx].str = DeviceIdString(x)

\* the faults a call for device d can meet: none, or one step failing for
\* d or for a hub above it that the call has to enumerate
FaultInputs(d) ==
    {Fault(0, "none")} \cup
    UNION {{Fault(x, step) : step \in StepsOf(x)} :
              x \in {y \in Lineage(d) : y = d \/ ~Registered(y)}}

\* whether the copies htab_hash makes in a call for device d can fail:
\* only a string that is not stored yet is copied
NoMemInputs(d) ==
    IF \A x \in Lineage(d) : Stored(x) THEN {FALSE} ELSE BOOLEAN

\* the candidate the scan is at, 0 at the end of a pass
ScanCandidate ==
    IF scan.pass \in {"hub", "dev"}
       /\ scan.i < Cardinality(Candidates(PassGuid(scan.pass)))
    THEN Nth(Candidates(PassGuid(scan.pass)), scan.i + 1)
    ELSE 0

\* the faults the current iteration of the scan can meet
ScanFaults ==
    IF ScanCandidate = 0 THEN {Fault(0, "none")} ELSE FaultInputs(ScanCandidate)

NextEnum ==
    \/ \E d \in DeviceIds : OsArrive(d)
    \/ \E d \in DeviceIds : OsLeave(d)
    \/ \E d \in DeviceIds :
          \E guid \in OsGuids(d), fault \in FaultInputs(d),
             nomem \in NoMemInputs(d) : HotplugArrival(d, guid, fault, nomem)
    \/ \E d \in DeviceIds : \E nomem \in NoMemInputs(d) : HotplugRemoval(d, nomem)
    \/ ScanStart
    \/ ScanReturn
    \/ \E noid \in BOOLEAN, nomem \in NoMemInputs(ScanCandidate) :
          \E fault \in ScanFaults : ScanStep(noid, fault, nomem)

SpecEnum == InitEnum /\ [][NextEnum]_vars

(***************************************************************************)
(* Properties of the topology builder                                      *)
(***************************************************************************)
\* this step is a call of windows_enumerate_device (from the scan or from
\* the hotplug listener)
EnumerateCall == ev' # <<>> /\ ev'[1][1] = "enumerate"

\* C8: a call of windows_enumerate_device for a device id whose session
\* identifier is registered already is a no-op: no node is allocated or
\* connected and the registry, with every field of every node, is unchanged
C8_KnownSessionNoOp ==
    [][EnumerateCall
       /\ usbi_get_device_by_session_id(usb_devs, ev'[1][4]) # NoDevice =>
          /\ usb_devs' = usb_devs
          /\ At(ev', "alloc") = {} /\ At(ev', "connect") = {}]_vars

\* windows_enumerate_device has just returned early for a registered session
C8_Witness ==
    /\ Len(ev) = 2
    /\ ev[1][1] = "enumerate" /\ ev[2][1] = "known"
    /\ usbi_get_device_by_session_id(usb_devs, ev[1][4]).device_id = ev[1][2]

\* C9: when a step of windows_enumerate_device fails, the registry
\* afterwards holds no node for the session id of the call, and every node
\* registered before the call is unchanged
C9_FailureLeavesNoNode ==
    [][EnumerateCall /\ EnumerationFailed(ev', ev'[1][2]) =>
          /\ usbi_get_device_by_session_id(usb_devs', ev'[1][4]) = NoDevice
          /\ Len(usb_devs') >= Len(usb_devs)
          /\ \A k \in DOMAIN usb_devs : usb_devs'[k] = usb_devs[k]]_vars

RegistryMutations(s) == {k \in DOMAIN s : s[k][1] \in {"connect", "disconnect"}}

\* C11: every mutation of the session registry (usbi_connect_device,
\* usbi_disconnect_device), by the hotplug listener or by the scan of an
\* application thread, is made while active_contexts_lock is held
C11_RegistryMutationsLocked ==
    \A k \in RegistryMutations(ev) : ev[k][4]

\* the events with which windows_hotplug_disconnect ends
RemovalHandled(s) == At(s, "disconnect") \cup At(s, "not_found")

\* C12: once windows_hotplug_disconnect has handled the removal of a hub or
\* device, the registry of the context holds no node with the session id of
\* that device
C12_RemovedSessionAbsent ==
    [][\A k \in RemovalHandled(ev') :
          usbi_get_device_by_session_id(usb_devs', ev'[k][3]) = NoDevice]_vars

\* the nodes of the registry of the context
Nodes == {usb_devs[k] : k \in DOMAIN usb_devs}

\* C13: every registered root hub has device address 1 and port 0, and
\* every registered device with a parent has the bus number of its parent
C13_RootHubAndBus ==
    \A n \in Nodes :
       /\ n.parent_dev = 0 => n.device_address = 1 /\ n.port_number = 0
       /\ n.parent_dev # 0 =>
             \A m \in Nodes : m.device_id = n.parent_dev =>
                n.bus_number = m.bus_number

\* the registry holds the root hub of the second bus and a device on it
C13_Witness ==
    \E n, m \in Nodes :
       /\ m.parent_dev = 0 /\ m.bus_number = 2
       /\ m.device_address = 1 /\ m.port_number = 0
       /\ n.parent_dev = m.device_id /\ n.bus_number = 2

\* C14: the bus number of a host controller is fixed at its first sighting:
\* no step changes the place an instance id has in host_controller[], and
\* every registered root hub has the bus number of the place of its host
\* controller, whichever hubs and devices were enumerated or removed before
C14_BusNumberFixed ==
    [][/\ Len(host_controller') >= Len(host_controller)
       /\ \A k \in DOMAIN host_controller :
             host_controller'[k] = host_controller[k]
       /\ \A n \in Nodes' :
             n.parent_dev = 0 =>
                /\ n.bus_number \in DOMAIN host_controller'
                /\ host_controller'[n.bus_number] =
                      OsHostController(n.device_id)]_vars

\* root hub 2, whose host controller was seen first, has just been
\* registered again with bus 1 after root hub 1 was registered with bus 2
C14_Witness ==
    /\ host_controller = <<OsHostController(2), OsHostController(1)>>
    /\ \E k \in At(ev, "connect") : ev[k][2] = 2
    /\ \E n \in Nodes : n.device_id = 1 /\ n.bus_number = 2
    /\ \E n \in Nodes : n.device_id = 2 /\ n.bus_number = 1

\* C15: no node of the registry has device address 0, whatever device
\* address the parent hub reports, the largest 8-bit value included
C15_NoAddressZero ==
    \A n \in Nodes : n.device_address # 0

\* device x has a node in the registry devs
HasNode(devs, x) == \E k \in DOMAIN devs : devs[k].device_id = x

\* C16: a device with a parent is connected only when its parent is
\* registered already, before the call or by an earlier connection of the
\* same call (the parent enumerated first, as a hub)
C16_ParentRegisteredFirst ==
    [][\A k \in At(ev', "connect") :
          OsParent(ev'[k][2]) # 0 =>
             \/ HasNode(usb_devs, OsParent(ev'[k][2]))
             \/ \E j \in At(ev', "connect") :
                   /\ j < k
                   /\ ev'[j][2] = OsParent(ev'[k][2])
                   /\ \E i \in At(ev', "enumerate") :
                         i < j /\ ev'[i][2] = ev'[j][2] /\ ev'[i][3] = "HUB"]_vars

(***************************************************************************)
(* The composite aggregator: the interface slots of one device node        *)
(***************************************************************************)
\* the slots of priv->usb_interface[] the aggregator is checked with
NumSlots == 4
\* the interface paths the OS hands out
MaxPaths == 3

Slots == 0..(NumSlots - 1)
Paths == 1..MaxPaths

\* the NULL path
NoPath == 0

\* windows_device_priv_init: a slot without path and backend
NoInterface == [path |-> NoPath, apib |-> "UNSUPPORTED"]

\* the part of windows_device_priv the aggregator works on
Priv(apib, ui, h) == [apib |-> apib, usb_interface |-> ui, hid |-> h]

\* a node fresh from usbi_alloc_device and windows_device_priv_init
BlankPriv == Priv("UNSUPPORTED", [i \in Slots |-> NoInterface], NoHid)

\* the characters of the instance ids, as C sees them
DigitChars == <<"0", "1", "2", "3", "4", "5", "6", "7", "8", "9">>
CharCode(c) ==
    IF \E k \in DOMAIN DigitChars : DigitChars[k] = c
    THEN 47 + (CHOOSE k \in DOMAIN DigitChars : DigitChars[k] = c)
    ELSE CASE c = "M" -> 77 [] c = "I" -> 73 [] c = "_" -> 95
           [] c = "&" -> 38 [] c = "V" -> 86 [] c = "NUL" -> 0 [] OTHER -> 67

\* device_id[i] of the zero-terminated string
CharAt(device_id, i) ==
    IF i = Len(device_id) THEN 0 ELSE CharCode(device_id[i + 1])

\* the instance id of interface n of a composite device, of one of its HID
\* collections, and of a child without an MI_ part
InstanceId(n) ==
    <<"V", "&", "M", "I", "_", DigitChars[(n \div 10) + 1], DigitChars[(n % 10) + 1]>>
CollectionId(n) == InstanceId(n) \o <<"&", "C">>
NextCollectionId(n) == CollectionId(n) \o <<"1">>
PlainId == <<"V">>

\* the device interfaces the OS reports below the node, each with its
\* instance id and its path
Leaves ==
    {<<InstanceId(n), 1 + (n % MaxPaths)>> : n \in 0..NumSlots}
    \cup {<<CollectionId(0), 2>>, <<NextCollectionId(0), 3>>}
    \cup {<<PlainId, path>> : path \in Paths}

\* an interface number that is always the default
mi_scan_default(device_id, i) == 0

RECURSIVE mi_scan(_, _)
\* the loop of set_composite_interface and unset_composite_interface that
\* reads the interface number behind "MI_"; every test advances i
mi_scan(device_id, i) ==
    IF CharAt(device_id, i) = 0 THEN 0
    ELSE IF CharAt(device_id, i) # 77 THEN mi_scan(device_id, i + 1)
    ELSE IF CharAt(device_id, i + 1) # 73 THEN mi_scan(device_id, i + 2)
    ELSE IF CharAt(device_id, i + 2) # 95 THEN mi_scan(device_id, i + 3)
    ELSE (CharAt(device_id, i + 3) - 48) * 10 + (CharAt(device_id, i + 4) - 48)

\* set_composite_interface once the slot is free to take the candidate
set_slot(P, n, dev_interface_path, api, nomem) ==
    LET Q == [P EXCEPT !.usb_interface[n] =
                          [path |-> dev_interface_path, apib |-> api]]
    IN  IF api = "HID" /\ P.hid = NoHid
        THEN IF nomem THEN [P |-> Q, r |-> "NO_MEM"]
             ELSE [P |-> [Q EXCEPT !.hid = Hid(0)], r |-> "SUCCESS"]
        ELSE [P |-> Q, r |-> "SUCCESS"]

\* set_composite_interface for a slot that has a path already
set_occupied_slot(P, n, dev_interface_path, api, nomem) ==
    IF api = "HID"
    THEN [P |-> P, r |-> "ACCESS"]
    ELSE set_slot(P, n, dev_interface_path, api, nomem)

\* set_composite_interface(dev, dev_interface_path, device_id, api, sub_api)
set_composite_interface(P, dev_interface_path, device_id, api, nomem) ==
    IF P.apib # "COMPOSITE" THEN [P |-> P, r |-> "NO_DEVICE"]
    ELSE IF mi_scan(device_id, 0) >= NumSlots THEN [P |-> P, r |-> "OTHER"]
    ELSE IF P.usb_interface[mi_scan(device_id, 0)].path # NoPath
         THEN set_occupied_slot(P, mi_scan(device_id, 0), dev_interface_path,
                                api, nomem)
         ELSE set_slot(P, mi_scan(device_id, 0), dev_interface_path, api, nomem)

\* a set_hid_interface without the loop that looks for the path among the
\* collections installed
set_hid_interface_again(P, dev_interface_path) ==
    IF P.hid = NoHid THEN [P |-> P, r |-> "NO_DEVICE"]
    ELSE IF P.hid[1] = NumSlots THEN [P |-> P, r |-> "NO_DEVICE"]
    ELSE [P |-> [P EXCEPT !.usb_interface[P.hid[1]] =
                             [path |-> dev_interface_path, apib |-> "HID"],
                          !.hid = Hid(P.hid[1] + 1)],
          r |-> "SUCCESS"]

\* set_hid_interface(dev, dev_interface_path)
set_hid_interface(P, dev_interface_path) ==
    IF P.hid = NoHid THEN [P |-> P, r |-> "NO_DEVICE"]
    ELSE IF P.hid[1] = NumSlots THEN [P |-> P, r |-> "NO_DEVICE"]
    ELSE IF \E i \in 0..(P.hid[1] - 1) :
               P.usb_interface[i].path = dev_interface_path
         THEN [P |-> P, r |-> "SUCCESS"]
         ELSE [P |-> [P EXCEPT !.usb_interface[P.hid[1]] =
                                  [path |-> dev_interface_path, apib |-> "HID"],
                               !.hid = Hid(P.hid[1] + 1)],
               r |-> "SUCCESS"]

\* the end of unset_composite_interface: priv->hid is freed when no slot
\* has the HID backend any more
free_hid_if_unused(P) ==
    IF \E i \in Slots : P.usb_interface[i].apib = "HID"
    THEN P ELSE [P EXCEPT !.hid = NoHid]

\* a removal that frees the path and leaves the backend of the slot
clear_path_only(slot) == [slot EXCEPT !.path = NoPath]

\* unset_composite_interface on the slot found: the path is freed, the
\* backend is Unsupported again
clear_slot(slot) == [slot EXCEPT !.path = NoPath, !.apib = "UNSUPPORTED"]

\* unset_composite_interface(dev, device_id)
unset_composite_interface(P, device_id) ==
    IF P.apib # "COMPOSITE" THEN P
    ELSE IF mi_scan(device_id, 0) >= NumSlots THEN P
    ELSE IF P.usb_interface[mi_scan(device_id, 0)].path = NoPath THEN P
    ELSE free_hid_if_unused(
            [P EXCEPT !.usb_interface[mi_scan(device_id, 0)] = clear_slot(@)])

\* an unset_hid_interface that fills the hole with the last collection
hid_swap_last(P, interface_number) ==
    [P EXCEPT !.usb_interface =
                 [i \in Slots |->
                     IF i = P.hid[1] - 1 THEN NoInterface
                     ELSE IF i = interface_number
                          THEN P.usb_interface[P.hid[1] - 1]
                          ELSE P.usb_interface[i]],
              !.hid = Hid(P.hid[1] - 1)]

\* unset_hid_interface from the slot found on: the later collections move
\* up by one and the last one is cleared
hid_shift(P, interface_number) ==
    [P EXCEPT !.usb_interface =
                 [i \in Slots |->
                     IF i < interface_number THEN P.usb_interface[i]
                     ELSE IF i < P.hid[1] - 1 THEN P.usb_interface[i + 1]
                     ELSE IF i = P.hid[1] - 1 THEN NoInterface
                     ELSE P.usb_interface[i]],
              !.hid = Hid(P.hid[1] - 1)]

\* the slots among the first nb_interfaces that hold the path
hid_matches(P, dev_interface_path) ==
    {i \in 0..(P.hid[1] - 1) :
        /\ P.usb_interface[i].path # NoPath
        /\ P.usb_interface[i].path = dev_interface_path}

\* unset_hid_interface(dev, dev_interface_path)
unset_hid_interface(P, dev_interface_path) ==
    IF P.hid = NoHid THEN P
    ELSE IF hid_matches(P, dev_interface_path) = {} THEN P
    ELSE hid_shift(P, Min(hid_matches(P, dev_interface_path)))

\* windows_enumerate_device, switch (api): the slots of a new node
enumerate_priv(api, path, nomem) ==
    IF api \in {"COMPOSITE", "HUB"} THEN Priv(api, BlankPriv.usb_interface, NoHid)
    ELSE IF api = "HID"
         THEN IF nomem THEN BlankPriv
              ELSE Priv(api, BlankPriv.usb_interface, Hid(0))
         ELSE Priv(api,
                   [i \in Slots |->
                       [path |-> IF i = 0 THEN path ELSE NoPath, apib |-> api]],
                   NoHid)

\* message_callback_handle_device_change for a device interface whose
\* parent is this node: arrival
interface_connected(P, dev_interface_path, device_id, api, nomem) ==
    IF P.apib = "COMPOSITE"
    THEN IF api # "UNSUPPORTED"
         THEN set_composite_interface(P, dev_interface_path, device_id, api, nomem)
         ELSE [P |-> P, r |-> "UNSUPPORTED"]
    ELSE IF P.apib = "HID"
         THEN set_hid_interface(P, dev_interface_path)
         ELSE [P |-> P, r |-> "NONE"]

\* message_callback_handle_device_change for a device interface whose
\* parent is this node: removal
interface_disconnected(P, dev_interface_path, device_id) ==
    IF P.apib = "COMPOSITE" THEN unset_composite_interface(P, device_id)
    ELSE IF P.apib = "HID" THEN unset_hid_interface(P, dev_interface_path)
    ELSE P

CurP == Priv(dev_api, usb_interface, hid)

StoreP(P) ==
    /\ dev_api' = P.apib
    /\ usb_interface' = P.usb_interface
    /\ hid' = P.hid

\* windows_enumerate_device gives a new node its backend and slots
EnumerateNode(api, path, nomem) ==
    /\ dev_api = "UNSUPPORTED"
    /\ StoreP(enumerate_priv(api, path, nomem))
    /\ ev' = <<<<"enumerate", api, path>>>>
    /\ UNCHANGED <<opened, interface_handle, claimed_interfaces,
                   autoclaim_count, transfers>>
    /\ UNCHANGED enumVars
    /\ UNCHANGED procVars

\* the last reference to the node is dropped: the next node starts blank
DestroyNode ==
    /\ dev_api # "UNSUPPORTED"
    /\ StoreP(BlankPriv)
    /\ ev' = <<<<"destroy">>>>
    /\ UNCHANGED <<opened, interface_handle, claimed_interfaces,
                   autoclaim_count, transfers>>
    /\ UNCHANGED enumVars
    /\ UNCHANGED procVars

\* a device interface of the node arrives
InterfaceArrival(dev_interface_path, device_id, api, nomem) ==
    /\ dev_api \in {"COMPOSITE", "HID"}
    /\ \E s \in {interface_connected(CurP, dev_interface_path, device_id,
                                     api, nomem)} :
          /\ StoreP(s.P)
          /\ ev' = <<<<"set", device_id, dev_interface_path, api, s.r>>>>
    /\ UNCHANGED <<opened, interface_handle, claimed_interfaces,
                   autoclaim_count, transfers>>
    /\ UNCHANGED enumVars
    /\ UNCHANGED procVars

\* a device interface of the node is removed
InterfaceRemoval(dev_interface_path, device_id) ==
    /\ dev_api \in {"COMPOSITE", "HID"}
    /\ \E P \in {interface_disconnected(CurP, dev_interface_path, device_id)} :
          /\ StoreP(P)
          /\ ev' = <<<<"unset", device_id, dev_interface_path, P # CurP>>>>
    /\ UNCHANGED <<opened, interface_handle, claimed_interfaces,
                   autoclaim_count, transfers>>
    /\ UNCHANGED enumVars
    /\ UNCHANGED procVars

InitInterfaces ==
    /\ dev_api = BlankPriv.apib
    /\ usb_interface = BlankPriv.usb_interface
    /\ hid = BlankPriv.hid
    /\ ClosedHandle /\ EnumIdle /\ os_present = {} /\ ProcIdle

\* the calloc of priv->hid can only fail where it is made
HidAllocInputs(api) ==
    IF api = "HID" /\ hid = NoHid THEN BOOLEAN ELSE {FALSE}

NextInterfaces ==
    \/ \E api \in {"WINUSBX", "HID", "COMPOSITE", "HUB"} :
          \E nomem \in HidAllocInputs(api) : EnumerateNode(api, 1, nomem)
    \/ DestroyNode
    \/ \E leaf \in Leaves, api \in {"WINUSBX", "HID", "UNSUPPORTED"} :
          \E nomem \in HidAllocInputs(api) :
             InterfaceArrival(leaf[2], leaf[1], api, nomem)
    \/ \E leaf \in Leaves : InterfaceRemoval(leaf[2], leaf[1])

SpecInterfaces == InitInterfaces /\ [][NextInterfaces]_vars

(***************************************************************************)
(* Properties of the composite aggregator                                  *)
(***************************************************************************)
\* this step installs / removes a device interface on a composite node
CompositeSet == ev' # <<>> /\ ev'[1][1] = "set" /\ dev_api = "COMPOSITE"
CompositeUnset == ev' # <<>> /\ ev'[1][1] = "unset" /\ dev_api = "COMPOSITE"

\* every slot but n is as it was
OtherSlotsKept(n) == \A m \in Slots \ {n} : usb_interface'[m] = usb_interface[m]

\* C17: on a composite node the interface with "MI_0n" in its instance id
\* is installed in slot n and in no other slot ("MI_00" and "MI_03" fill
\* slots 0 and 3, slots 1 and 2 stay empty), and its removal clears slot n
\* and leaves every other slot unchanged
C17_SlotByInterfaceNumber ==
    [][\A n \in Slots :
          /\ CompositeSet /\ ev'[1][2] = InstanceId(n) /\ ev'[1][5] = "SUCCESS" =>
                /\ usb_interface'[n] = [path |-> ev'[1][3], apib |-> ev'[1][4]]
                /\ OtherSlotsKept(n)
          /\ CompositeUnset /\ ev'[1][2] = InstanceId(n) =>
                /\ usb_interface'[n] = NoInterface
                /\ OtherSlotsKept(n)]_vars

\* "MI_00" and "MI_03" were installed and "MI_00" has just been removed:
\* slot 3 alone is populated
C17_Witness ==
    /\ dev_api = "COMPOSITE"
    /\ ev = <<<<"unset", InstanceId(0), 1, TRUE>>>>
    /\ usb_interface[3].path = 1 /\ usb_interface[3].apib # "UNSUPPORTED"
    /\ \A m \in Slots \ {3} : usb_interface[m] = NoInterface

\* C18: set_composite_interface on an occupied slot: the candidate's path
\* and backend replace a non-HID occupant, and a HID candidate is ignored
\* when the occupant is a HID leaf
C18_OccupiedSlotPolicy ==
    [][CompositeSet /\ ev'[1][5] \notin {"UNSUPPORTED", "OTHER"} =>
          LET n == mi_scan(ev'[1][2], 0)
          IN  /\ /\ usb_interface[n].path # NoPath
                 /\ usb_interface[n].apib # "HID"
                 => usb_interface'[n] = [path |-> ev'[1][3], apib |-> ev'[1][4]]
              /\ /\ usb_interface[n].apib = "HID"
                 /\ ev'[1][4] = "HID"
                 => UNCHANGED <<usb_interface, hid>>]_vars

\* the paths of the HID collections of a HID node, in slot order
HidPaths(ui, h) == [k \in 1..h[1] |-> ui[k - 1].path]

\* C19: unset_hid_interface takes the collection with the given path out
\* of the list, closes the gap and keeps the other collections in their
\* order; when no collection has the path nothing changes
C19_HidRemovalCompacts ==
    [][ev' # <<>> /\ ev'[1][1] = "unset" /\ dev_api = "HID" =>
          /\ HidPaths(usb_interface', hid') =
                SelectSeq(HidPaths(usb_interface, hid), LAMBDA q : q # ev'[1][3])
          /\ \A i \in Slots :
                usb_interface'[i].apib =
                   IF i < hid'[1] THEN "HID" ELSE "UNSUPPORTED"
          /\ \A i \in Slots : i >= hid'[1] => usb_interface'[i].path = NoPath
          /\ (\A i \in Slots : usb_interface[i].path # ev'[1][3]) =>
                UNCHANGED <<usb_interface, hid>>]_vars

\* the first of three HID collections has just been removed: the other two
\* moved up in their order
C19_Witness ==
    /\ dev_api = "HID"
    /\ ev = <<<<"unset", PlainId, 1, TRUE>>>>
    /\ hid = Hid(2)
    /\ HidPaths(usb_interface, hid) = <<3, 2>>

CollectionsOf(n) == {InstanceId(n), CollectionId(n), NextCollectionId(n)}

\* C21: of three HID device interfaces under one interface ordinal the
\* second and the third are kept apart from the first: their arrival
\* leaves every slot as it is, and the removal of one of them, which is
\* not the one the slot holds, leaves the slot of the first and the slots
\* of the other ordinals as they are
C21_LaterCollectionsQueued ==
    [][\A n \in Slots :
          /\ /\ CompositeSet /\ ev'[1][2] \in CollectionsOf(n)
             /\ ev'[1][4] = "HID" /\ usb_interface[n].apib = "HID"
             => UNCHANGED <<usb_interface, hid>>
          /\ /\ CompositeUnset /\ ev'[1][2] \in CollectionsOf(n)
             /\ usb_interface[n].apib = "HID"
             /\ usb_interface[n].path # ev'[1][3]
             => UNCHANGED <<usb_interface, hid>>]_vars

(***************************************************************************)
(* get_api_type: the backend of a device from its driver and filters       *)
(***************************************************************************)
\* longest list of filter drivers the registry reports for a device
MaxFilters == 2

\* usb_api_backend[1..USB_API_MAX-1] in the order of the table
ApiOrder == <<"HUB", "COMPOSITE", "WINUSBX", "HID">>

\* usb_api_backend[].driver_name_list
driver_name_list(api) ==
    CASE api = "HUB" -> <<"USBHUB", "USBHUB3", "NUSB3HUB", "RUSB3HUB", "FLXHCIH",
                          "TIHUB3", "ETRONHUB3", "VIAHUB3", "ASMTHUB3", "IUSB3HUB">>
      [] api = "COMPOSITE" -> <<"USBCCGP">>
      [] api = "WINUSBX" -> <<"libusbK", "libusb0", "WinUSB">>
      [] api = "HID" -> <<"HIDUSB", "MOUHID", "KBDHID">>

\* service and filter names the registry reports, in the case Windows uses
OsDriverNames == {"usbhub", "libusb0", "HidUsb", "mouclass"}

\* the upper-case form safe_stricmp compares
ToUpper(name) ==
    CASE name = "usbhub" -> "USBHUB" [] name = "usbccgp" -> "USBCCGP"
      [] name = "WinUSB" -> "WINUSB" [] name = "libusb0" -> "LIBUSB0"
      [] name = "libusbK" -> "LIBUSBK" [] name = "HidUsb" -> "HIDUSB"
      [] name = "mouclass" -> "MOUCLASS" [] OTHER -> name

\* safe_stricmp(a, b) == 0
safe_stricmp(a, b) == ToUpper(a) = ToUpper(b)

\* SUB_API_NOTSET
SUB_API_NOTSET == -1

\* the tokens of the list that are in the name table of the backend
MatchingTokens(driver, api) ==
    {t \in 1..Len(driver) :
        \E i \in 1..Len(driver_name_list(api)) :
           safe_stricmp(driver[t], driver_name_list(api)[i])}

\* get_sub_api(driver, api): the index of the first token of the list that
\* is in the name table of the backend; the list is copied first
get_sub_api(driver, api, nomem) ==
    IF Len(driver) = 0 THEN SUB_API_NOTSET
    ELSE IF nomem THEN SUB_API_NOTSET
    ELSE IF MatchingTokens(driver, api) = {} THEN SUB_API_NOTSET
    ELSE Min({i \in 1..Len(driver_name_list(api)) :
                 safe_stricmp(driver[Min(MatchingTokens(driver, api))],
                              driver_name_list(api)[i])}) - 1

\* a walk that asks every backend about the driver, then about the upper
\* filters, then about the lower filters
bindings_first(n) == <<((n - 1) % 4) + 1, ((n - 1) \div 4) + 1>>

\* the two loops of get_api_type: the n-th pair <<i, k>> that is tried;
\* the backends are the outer loop, the three lists the inner one
api_loops(n) == <<((n - 1) \div 3) + 1, ((n - 1) % 3) + 1>>

RECURSIVE api_type_from(_, _, _)
\* get_api_type from the n-th pair on; fail holds the pairs whose copy of
\* the list cannot be allocated
api_type_from(list, fail, n) ==
    IF n > 12 THEN [api |-> "UNSUPPORTED", sub_api |-> SUB_API_NOTSET]
    ELSE IF get_sub_api(list[api_loops(n)[2]], ApiOrder[api_loops(n)[1]],
                        api_loops(n) \in fail) >= 0
         THEN [api |-> ApiOrder[api_loops(n)[1]],
               sub_api |-> get_sub_api(list[api_loops(n)[2]],
                                       ApiOrder[api_loops(n)[1]], FALSE)]
         ELSE api_type_from(list, fail, n + 1)

\* get_api_type(ctx, dev_info, dev_info_data, &api, &sub_api)
get_api_type(list, fail) == api_type_from(list, fail, 1)

\* the lists a registry property can hold
NameLists(n) == UNION {[1..m -> OsDriverNames] : m \in 0..n}

\* the lists of a device: one service name at most, and the filters
Lookups == {<<d, u, l>> : d \in NameLists(1), u \in NameLists(MaxFilters),
                          l \in NameLists(MaxFilters)}

\* the copies of get_sub_api that can fail: one at most
CopyFaults == {{}} \cup {{<<i, k>>} : i \in 1..4, k \in 1..3}

\* a device interface or device is classified
GetApiType(fail) ==
    /\ \E r \in {get_api_type(lookup, fail)} :
          ev' = <<<<"api_type", r.api, r.sub_api, fail>>>>
    /\ UNCHANGED <<lookup, hash_returned>>
    /\ UNCHANGED initVars
    /\ UNCHANGED pending
    /\ UNCHANGED xferVars
    /\ UNCHANGED enumVars

InitApiType ==
    /\ dev_api = BlankPriv.apib
    /\ usb_interface = BlankPriv.usb_interface
    /\ hid = BlankPriv.hid
    /\ ClosedHandle /\ EnumIdle /\ os_present = {}
    /\ hash_returned = NoReturned
    /\ concurrent_usage = -1 /\ singletons = {}
    /\ init_semaphore = TRUE /\ contexts = {}
    /\ pending = {}
    /\ lookup \in Lookups

NextApiType == \E fail \in CopyFaults : GetApiType(fail)

SpecApiType == InitApiType /\ [][NextApiType]_vars

\* list k has a name of the backend
Matches(k, api) == MatchingTokens(lookup[k], api) # {}

\* the result of the lookup made last
Classified == ev # <<>> /\ ev[1][1] = "api_type"

CurT == HTab(htab_table, htab_filled)

\* the string is in the table
InTable(table, str) ==
    \E idx \in DOMAIN table : table[idx].used # 0 /\ table[idx].str = str

\* htab_hash(str) is called
HashString(str, nomem) ==
    /\ \E h \in {htab_hash(CurT, str, nomem)} :
          /\ htab_table' = h.t.table
          /\ htab_filled' = h.t.filled
          /\ ev' = <<<<"hash", str, h.id, nomem, InTable(htab_table, str)>>>>
          /\ hash_returned' = [hash_returned EXCEPT ![str] = @ \cup {h.id}]
    /\ UNCHANGED <<host_controller, usb_devs, os_present, scan, lookup>>
    /\ UNCHANGED initVars
    /\ UNCHANGED pending
    /\ UNCHANGED xferVars

InitHtab ==
    /\ dev_api = BlankPriv.apib
    /\ usb_interface = BlankPriv.usb_interface
    /\ hid = BlankPriv.hid
    /\ ClosedHandle /\ EnumIdle /\ os_present = {} /\ ProcIdle

NextHtab == \E str \in HashStrings, nomem \in BOOLEAN : HashString(str, nomem)

SpecHtab == InitHtab /\ [][NextHtab]_vars

\* the call of htab_hash made by the last step
Hashed == ev # <<>> /\ ev[1][1] = "hash"

\* C23: htab_hash returns one value only for each string, whatever calls
\* are made in between
C23_SameIdentifier ==
    \A str \in HashStrings : Cardinality(hash_returned[str]) <= 1

\* C23 for the calls that succeed: every call with the same string that
\* returns an identifier returns the same identifier, whatever calls with
\* other strings, colliding or not, are made in between; a call that
\* fails returns 0
C23_SameIdentifierOnSuccess ==
    \A str \in HashStrings :
       /\ Cardinality(hash_returned[str] \ {0}) <= 1
       /\ \A other \in HashStrings \ {str} :
             hash_returned[str] \cap hash_returned[other] \subseteq {0}

\* a string whose first call failed for want of memory has got its
\* identifier by a later call that followed a collision
C23_Witness ==
    /\ Hashed /\ ev[1][5]
    /\ hash_returned[ev[1][2]] = {0, ev[1][3]}
    /\ ev[1][3] # 0
    /\ ev[1][3] # htab_search(CurT, ev[1][2]).hval

\* C24: the value htab_hash returns for a string that was not in the table
\* is none that a lookup of a stored string returns
C24_NewDistinguishable ==
    Hashed /\ ~ev[1][5] =>
       \A str \in HashStrings :
          InTable(htab_table, str) => htab_hash(CurT, str, FALSE).id # ev[1][3]

\* C24 as the code has it: the value returned is the index of the entry
\* that holds the string, whether the call has stored it or found it, and
\* it is 0 exactly when the string is not in the table after the call
C24_FailureDistinguishable ==
    Hashed =>
       /\ ev[1][3] \in 0..htab_size
       /\ ev[1][3] # 0 =>
             /\ htab_table[ev[1][3]].str = ev[1][2]
             /\ htab_table[ev[1][3]].used = htab_search(CurT, ev[1][2]).hval
       /\ ev[1][3] = 0 <=> ~InTable(htab_table, ev[1][2])
       /\ InTable(htab_table, ev[1][2]) =>
             htab_hash(CurT, ev[1][2], FALSE).id = ev[1][3]

\* a new string has been stored after a collision, next to another entry
C24_Witness ==
    /\ Hashed /\ ~ev[1][5]
    /\ ev[1][3] # 0
    /\ ev[1][3] # htab_search(CurT, ev[1][2]).hval
    /\ htab_filled = 2

\* C25: a call with a string that is in the table leaves htab_filled and
\* every entry as they are
C25_RehashKeepsTable ==
    [][ev' # <<>> /\ ev'[1][1] = "hash" /\ InTable(htab_table, ev'[1][2]) =>
          UNCHANGED <<htab_table, htab_filled>>]_vars

\* a stored string has been hashed again, with three strings stored
C25_Witness ==
    /\ Hashed /\ ev[1][5] /\ ev[1][3] # 0
    /\ htab_filled = htab_size

\* C26: with the table full a new string gets 0 and no entry changes,
\* every stored string still gets its index, and 0 is never the answer
\* for a stored string
C26_FullTableFails ==
    [][ev' # <<>> /\ ev'[1][1] = "hash" =>
          /\ htab_filled >= htab_size /\ ~InTable(htab_table, ev'[1][2]) =>
                /\ ev'[1][3] = 0
                /\ UNCHANGED <<htab_table, htab_filled>>
          /\ InTable(htab_table, ev'[1][2]) =>
                /\ ev'[1][3] # 0
                /\ htab_table[ev'[1][3]].str = ev'[1][2]]_vars

\* the table is full and a new string has just been refused
C26_Witness ==
    /\ Hashed /\ ~ev[1][5] /\ ~ev[1][4]
    /\ ev[1][3] = 0
    /\ htab_filled = htab_size
    /\ \A idx \in 1..htab_size : htab_table[idx].used # 0

(***************************************************************************)
(* Closing the device handle                                               *)
(***************************************************************************)
\* winusbx_close: CloseHandle on the file handle of every WinUSB interface
winusbx_close(h) ==
    [h EXCEPT !.ih =
        [i \in Interfaces |->
            IF h.ui[i].apib = "WINUSBX" /\ HandleValid(h.ih[i].dev_handle)
            THEN [h.ih[i] EXCEPT !.dev_handle = "INVALID"]
            ELSE h.ih[i]]]

\* hid_close: CloseHandle on the file handle of every HID interface
hid_close(h) ==
    [h EXCEPT !.ih =
        [i \in Interfaces |->
            IF h.ui[i].apib = "HID" /\ HandleValid(h.ih[i].api_handle)
            THEN [h.ih[i] EXCEPT !.api_handle = "INVALID"]
            ELSE h.ih[i]]]

\* composite_close: the close of the WinUSB-like backend for every sub-API
\* one of the interfaces uses
composite_close(h) ==
    IF \E i \in Interfaces : h.ui[i].apib = "WINUSBX"
    THEN winusbx_close(h) ELSE h

\* windows_close(dev_handle): priv->apib->close
windows_close(h) ==
    CASE dev_api = "WINUSBX" -> winusbx_close(h)
      [] dev_api = "HID" -> hid_close(h)
      [] dev_api = "COMPOSITE" -> composite_close(h)
      [] OTHER -> h

\* the interfaces the backend still holds claimed for the handle: a WinUSB
\* interface handle that was not freed, the claim marker of a HID interface
StillClaimed(h) ==
    {i \in Interfaces :
        \/ h.ui[i].apib = "WINUSBX" /\ HandleValid(h.ih[i].api_handle)
        \/ h.ui[i].apib = "HID" /\ h.ih[i].dev_handle = "CLAIMED"}

\* libusb_close by the application, once its transfers are done: the
\* backend closes, then the core frees the handle with its private data
Close ==
    /\ opened
    /\ transfers = EmptyBag
    /\ \E h \in {windows_close(CurH)} :
          ev' = <<<<"close", StillClaimed(CurH), StillClaimed(h)>>>>
    /\ opened' = FALSE
    /\ interface_handle' = [i \in Interfaces |->
                              [dev_handle |-> "INVALID", api_handle |-> "INVALID"]]
    /\ claimed_interfaces' = {}
    /\ autoclaim_count' = [i \in Interfaces |-> 0]
    /\ UNCHANGED <<dev_api, hid, usb_interface, transfers>>
    /\ UNCHANGED enumVars
    /\ UNCHANGED procVars

NextClose == NextTransfers \/ Close

SpecClose == InitTransfers /\ [][NextClose]_vars

\* C27: when windows_close returns, the backend holds no interface of the
\* handle claimed any more, whether the application or auto_claim had
\* claimed it
C27_CloseReleasesClaims ==
    ev # <<>> /\ ev[1][1] = "close" => ev[1][3] = {}

(***************************************************************************)
(* windows_init and windows_exit: the life of the process-wide state       *)
(***************************************************************************)
\* contexts the application opens at the same time
MaxContexts == 4

Contexts == 1..MaxContexts

\* the steps of the first windows_init that can fail, in their order
InitSteps ==
    <<"version", "autoclaim_lock", "host_controller_lock", "init_dlls",
      "htab_create", "timer_request", "timer_response", "timer_mutex",
      "timer_thread", "timer_ready", "hotplug_response", "hotplug_thread",
      "hotplug_ready">>

\* the process-wide objects a step of the first windows_init leaves behind
\* when it succeeds
Builds(step) ==
    CASE step \in {"version", "init_dlls", "timer_ready", "hotplug_ready"} -> {}
      [] step = "htab_create" -> {"htab_write_mutex", "htab_table"}
      [] OTHER -> {step}

\* what a failing step has built before it fails: htab_create has
\* initialised htab_write_mutex when its calloc fails
BuildsOnFailure(step) ==
    IF step = "htab_create" THEN {"htab_write_mutex"} ELSE {}

\* everything the first windows_init and its scan construct
AllSingletons ==
    UNION {Builds(InitSteps[k]) : k \in DOMAIN InitSteps} \cup {"host_controller"}

\* htab_destroy(): nothing when htab_table is NULL
htab_destroy(S) ==
    IF "htab_table" \in S THEN S \ {"htab_table", "htab_write_mutex"} ELSE S

\* init_exit of windows_init after a failed first init
init_exit_cleanup(S) ==
    htab_destroy(S \ {"timer_thread", "timer_request", "timer_response",
                      "timer_mutex", "hotplug_thread", "hotplug_response"})
       \ {"host_controller_lock", "autoclaim_lock"}

\* the body of "First init?" up to the step that fails (0: none does)
first_init(fault) ==
    UNION {Builds(InitSteps[k]) : k \in 1..(IF fault = 0 THEN Len(InitSteps)
                                            ELSE fault - 1)}
       \cup (IF fault = 0 THEN {} ELSE BuildsOnFailure(InitSteps[fault]))

\* windows_init(ctx); fault is the step of the first init that fails
windows_init(ctx, fault) ==
    IF concurrent_usage + 1 = 0
    THEN IF fault = 0
         THEN [cu |-> 0, S |-> first_init(0) \cup {"host_controller"},
               sem |-> TRUE, r |-> "SUCCESS"]
         ELSE IF InitSteps[fault] = "init_dlls"
              THEN [cu |-> 0, S |-> first_init(fault), sem |-> FALSE,
                    r |-> "NOT_FOUND"]
              ELSE [cu |-> -1, S |-> init_exit_cleanup(first_init(fault)),
                    sem |-> TRUE, r |-> "ERROR"]
    ELSE [cu |-> concurrent_usage + 1, S |-> singletons \cup {"host_controller"},
          sem |-> TRUE, r |-> "SUCCESS"]

\* the last exit of windows_exit: every process-wide object is destroyed
windows_exit_last(S) == {}

\* windows_exit()
windows_exit ==
    IF concurrent_usage - 1 < 0
    THEN [cu |-> concurrent_usage - 1, S |-> windows_exit_last(singletons)]
    ELSE [cu |-> concurrent_usage - 1, S |-> singletons]

\* libusb_init of a context: windows_init once the semaphore is obtained
WindowsInit(ctx, fault) ==
    /\ ctx \notin contexts
    /\ init_semaphore
    /\ \E i \in {windows_init(ctx, fault)} :
          /\ concurrent_usage' = i.cu
          /\ singletons' = i.S
          /\ init_semaphore' = i.sem
          /\ contexts' = IF i.r = "SUCCESS" THEN contexts \cup {ctx} ELSE contexts
          /\ ev' = <<<<"init", ctx, i.r, fault>>>>
    /\ UNCHANGED <<lookup, hash_returned>>
    /\ UNCHANGED pending
    /\ UNCHANGED xferVars
    /\ UNCHANGED enumVars

\* libusb_exit of a context whose init succeeded
WindowsExit(ctx) ==
    /\ ctx \in contexts
    /\ init_semaphore
    /\ \E x \in {windows_exit} :
          /\ concurrent_usage' = x.cu
          /\ singletons' = x.S
    /\ contexts' = contexts \ {ctx}
    /\ ev' = <<<<"exit", ctx>>>>
    /\ UNCHANGED <<lookup, hash_returned, init_semaphore>>
    /\ UNCHANGED pending
    /\ UNCHANGED xferVars
    /\ UNCHANGED enumVars

InitLife ==
    /\ dev_api = BlankPriv.apib
    /\ usb_interface = BlankPriv.usb_interface
    /\ hid = BlankPriv.hid
    /\ ClosedHandle /\ EnumIdle /\ os_present = {} /\ ProcIdle

\* the steps of a non-first init cannot fail
InitFaults == IF concurrent_usage + 1 = 0 THEN 0..Len(InitSteps) ELSE {0}

NextLife ==
    \/ \E ctx \in Contexts, fault \in InitFaults : WindowsInit(ctx, fault)
    \/ \E ctx \in Contexts : WindowsExit(ctx)

SpecLife == InitLife /\ [][NextLife]_vars

\* C28: the process-wide state exists exactly while a context is open: it
\* is built by the init that opens the first context, kept by every later
\* init and exit, and destroyed by the exit of the last open context; an
\* init that fails leaves nothing of it behind
C28_SingletonsWhileOpen ==
    /\ contexts = {} => singletons = {}
    /\ contexts # {} => singletons = AllSingletons
    /\ concurrent_usage = Cardinality(contexts) - 1

(***************************************************************************)
(* Claiming and releasing with the return codes the application sees       *)
(***************************************************************************)
\* libusb_claim_interface called by the application, with its return code
ClaimCall(iface, os) ==
    /\ opened
    /\ \E c \in {libusb_claim_interface(CurH, iface, os)} :
          StoreH([c.h EXCEPT !.ev = <<<<"claim_interface", iface, c.r>>>>])
    /\ UNCHANGED <<dev_api, hid, opened, transfers>>
    /\ UNCHANGED enumVars
    /\ UNCHANGED procVars

\* libusb_release_interface called by the application, with its return code
ReleaseCall(iface) ==
    /\ opened
    /\ \E c \in {libusb_release_interface(CurH, iface)} :
          StoreH([c.h EXCEPT !.ev = <<<<"release_interface", iface, c.r>>>>])
    /\ UNCHANGED <<dev_api, hid, opened, transfers>>
    /\ UNCHANGED enumVars
    /\ UNCHANGED procVars

NextClaims ==
    \/ \E ok \in BOOLEAN, restricted \in SUBSET Interfaces : Open(ok, restricted)
    \/ \E iface \in Interfaces, os \in ClaimOs : ClaimCall(iface, os)
    \/ \E iface \in Interfaces : ReleaseCall(iface)
    \/ Close

SpecClaims == InitTransfers /\ [][NextClaims]_vars

MaxReady == 2

\* the descriptors poll reported ready, in the order of the pollfd array:
\* each is the descriptor of a transfer in flight or, as NoTransfer, a
\* descriptor no transfer in flight was created for
ReadyFds(flying) ==
    {r \in UNION {[1..n -> BagToSet(flying) \cup {NoTransfer}] : n \in 0..MaxReady} :
        \A fd \in BagToSet(flying) :
           Cardinality({i \in DOMAIN r : r[i] = fd}) <= CopiesIn(fd, flying)}

\* the walk of flying_transfers for the descriptor fd
fd_found(flying, fd) == BagIn(fd, flying) /\ fd.state = "flying"

\* the end of windows_handle_events after the loop
handle_events_done(h) ==
    Emit(Emit(h, <<"unlock", "open_devs_lock">>), <<"return", "SUCCESS">>)

\* the found branch taken for a descriptor the walk did not match, with
\* `found` still true from an earlier descriptor: transfer is what the
\* finished walk left behind and not a transfer, so the callback may act on
\* any transfer still in flight or on none
stale_callback(h, flying, io_result, oversize) ==
    {[h |-> Emit(h, <<"stale_callback">>), flying |-> flying]} \cup
    {[h |-> windows_transfer_callback(h, tr, io_result,
                oversize /\ tr.hid_buffer /\ tr.hid_dest),
      flying |-> Without(flying, tr)] :
        tr \in {t \in BagToSet(flying) : t.state = "flying"}}

RECURSIVE handle_events_loop(_, _, _, _, _, _, _)
\* the loop of windows_handle_events over the ready descriptors from index
\* i on; found is the variable of that name, which the loop never resets
handle_events_loop(h, flying, ready, i, found, io_result, oversize) ==
    IF i > Len(ready)
    THEN {[h |-> handle_events_done(h), flying |-> flying]}
    ELSE LET fd == ready[i]
             m  == fd_found(flying, fd)
             h0 == Emit(h, <<"ready", i, m>>)
         IN  IF m
             THEN handle_events_loop(
                      windows_transfer_callback(h0, fd, io_result,
                          oversize /\ fd.hid_buffer /\ fd.hid_dest),
                      Without(flying, fd), ready, i + 1, TRUE, io_result,
                      oversize)
             ELSE IF found
             THEN UNION {handle_events_loop(c.h, c.flying, ready, i + 1, TRUE,
                                            io_result, oversize) :
                            c \in stale_callback(h0, flying, io_result,
                                                 oversize)}
             ELSE {[h |-> Emit(h0, <<"return", "NOT_FOUND">>),
                    flying |-> flying]}

\* windows_handle_events: the lock, the loop over the ready descriptors and
\* the two return statements; the set of the outcomes of one call
windows_handle_events(h, flying, ready, io_result, oversize) ==
    handle_events_loop(Emit(h, <<"lock", "open_devs_lock">>), flying, ready,
                       1, FALSE, io_result, oversize)

\* one call of windows_handle_events by the event loop
WindowsHandleEvents(ready, io_result, oversize) ==
    /\ \E c \in windows_handle_events(CurH, transfers, ready, io_result,
                                      oversize) :
          /\ StoreH(c.h)
          /\ transfers' = c.flying
    /\ UNCHANGED <<dev_api, hid, opened>>
    /\ UNCHANGED enumVars
    /\ UNCHANGED procVars

NextEvents ==
    \/ \E ok \in BOOLEAN, restricted \in SUBSET Interfaces : Open(ok, restricted)
    \/ \E i \in Interfaces, os \in ClaimOs : ClaimInterface(i, os)
    \/ \E i \in Interfaces : ReleaseInterface(i)
    \/ \E os \in ControlOs : SubmitControl(os)
    \/ \E e \in Endpoints : \E os \in BulkOs(e) : SubmitBulk(e, os)
    \/ \E tr \in BagToSet(transfers) : CancelTransfer(tr)
    \/ \E ready \in ReadyFds(transfers), io \in IoResults, oversize \in BOOLEAN :
          WindowsHandleEvents(ready, io, oversize)

SpecEvents == InitTransfers /\ [][NextEvents]_vars

\* the locks and unlocks of open_devs_lock among the events of a call
LockEvents(kind) ==
    {i \in 1..Len(ev) : ev[i][1] = kind /\ ev[i][2] = "open_devs_lock"}

\* C30: every call of windows_handle_events that has returned, with
\* LIBUSB_SUCCESS or with LIBUSB_ERROR_NOT_FOUND for a ready descriptor
\* that matches no transfer in flight, has released the open_devs_lock it
\* took
C30_LockReleasedOnReturn ==
    ev # <<>> /\ ev[Len(ev)][1] = "return"
    => Cardinality(LockEvents("lock")) = Cardinality(LockEvents("unlock"))

\* the ready descriptor a callback at position i of the events was made for
ReadyBefore(i) ==
    CHOOSE j \in 1..i : /\ ev[j][1] = "ready"
                        /\ \A k \in (j + 1)..i : ev[k][1] # "ready"

\* C31: in a call of windows_handle_events the callback is made only for a
\* ready descriptor that is the descriptor of a transfer in flight, and a
\* ready descriptor that matches no transfer in flight is followed by no
\* callback and by the return of LIBUSB_ERROR_NOT_FOUND, also after an
\* earlier descriptor of the same call matched
C31_CallbackOnlyForMatch ==
    \A i \in 1..Len(ev) :
       /\ ev[i][1] \in {"callback", "stale_callback"}
          /\ (\E j \in 1..i : ev[j][1] = "ready")
          => ev[ReadyBefore(i)][3]
       /\ ev[i][1] = "ready" /\ ~ev[i][3]
          => /\ i < Len(ev)
             /\ ev[i + 1][1] = "return" /\ ev[i + 1][2] = "NOT_FOUND"

(***************************************************************************)
(* Control submits that fail after their auto-claim                        *)
(***************************************************************************)
\* C32: a control submit that auto-claimed an interface and then failed
\* (no pollable descriptor, or the I/O call of the backend failed) leaves
\* autoclaim_count of that interface at its value before the submit and
\* does not leave the interface claimed
C32_FailedSubmitUndoesAutoClaim ==
    [][\A i \in Interfaces :
          /\ Len(ev') = 2
          /\ ev'[1][1] = "auto_claim" /\ ev'[1][2] = "SUCCESS" /\ ev'[1][3] = i
          /\ ev'[2][1] = "submit" /\ ev'[2][2] # "SUCCESS"
          => /\ autoclaim_count'[i] = autoclaim_count[i]
             /\ i \notin claimed_interfaces => i \notin claimed_interfaces']_vars

(***************************************************************************)
(* The scan of windows_init next to the hotplug listener                   *)
(***************************************************************************)
\* windows_enumerate_device up to the session lookup: the identifier and
\* whether a node is registered under it
enumerate_lookup(E, d, guid, nomem) ==
    LET s == htab_hash(E.t, DeviceIdString(d), nomem)
    IN  [E |-> [E EXCEPT !.t = s.t,
                         !.ev = Append(@, <<"enumerate", d, guid, s.id>>)],
         id |-> s.id,
         known |-> usbi_get_device_by_session_id(E.devs, s.id) # NoDevice]

\* the scan thread runs one iteration of windows_scan_devices up to the
\* session lookup of windows_enumerate_device; it holds no lock
ScanLookup(noid, nomem) ==
    /\ scan.pass \in {"hub", "dev"}
    /\ pending = {}
    /\ IF ScanCandidate = 0
       THEN /\ scan' = scan_break(scan)
            /\ StoreE(CurE)
            /\ UNCHANGED pending
       ELSE IF noid
       THEN /\ scan' = [scan EXCEPT !.i = @ + 1,
                                    !.skipped = @ \cup {<<ScanCandidate,
                                                          PassGuid(scan.pass)>>}]
            /\ StoreE(CurE)
            /\ UNCHANGED pending
       ELSE \E l \in {enumerate_lookup(CurE, ScanCandidate,
                                       PassGuid(scan.pass), nomem)} :
               IF l.known
               THEN /\ \E E \in {[l.E EXCEPT !.ev =
                                     Append(@, <<"known", ScanCandidate, l.id>>)]} :
                          StoreE(E) /\ scan' = scan_continue(scan, ScanCandidate, E)
                    /\ UNCHANGED pending
               ELSE /\ StoreE(l.E)
                    /\ pending' = {[d |-> ScanCandidate,
                                    guid |-> PassGuid(scan.pass), id |-> l.id]}
                    /\ UNCHANGED scan
    /\ UNCHANGED os_present
    /\ UNCHANGED xferVars
    /\ UNCHANGED <<lookup, hash_returned>>
    /\ UNCHANGED initVars

\* the scan thread goes on after a lookup that found no node: the rest of
\* windows_enumerate_device, against the registry as it is by now
ScanEnumerate(fault, nomem) ==
    /\ \E p \in pending :
          \E E \in {enumerate_unknown(
                        [CurE EXCEPT !.ev = <<<<"enumerate", p.d, p.guid, p.id>>>>],
                        p.id, p.d, p.guid, fault, nomem)} :
             StoreE(E) /\ scan' = scan_continue(scan, p.d, E)
    /\ pending' = {}
    /\ UNCHANGED os_present
    /\ UNCHANGED xferVars
    /\ UNCHANGED <<lookup, hash_returned>>
    /\ UNCHANGED initVars

\* the hotplug listener handles an arrival while the scan of windows_init
\* is under way, for a context that is on active_contexts_list by then
HotplugWhileScanning(d, guid, fault, nomem) ==
    /\ scan.pass \in {"hub", "dev"}
    /\ d \in os_present
    /\ \E E \in {windows_hotplug_enumerate(CurE, d, guid, fault, nomem)} :
          StoreE(E)
    /\ UNCHANGED <<os_present, scan>>
    /\ UNCHANGED xferVars
    /\ UNCHANGED procVars

\* the faults the call the scan thread is in can meet
PendingFaults == UNION {FaultInputs(p.d) : p \in pending}

\* the interleavings of the scan thread and the listener in which every
\* copy htab_hash makes succeeds
NextScanRace ==
    \/ ScanStart
    \/ ScanReturn
    \/ \E noid \in BOOLEAN : ScanLookup(noid, FALSE)
    \/ \E fault \in PendingFaults : ScanEnumerate(fault, FALSE)
    \/ \E d \in DeviceIds :
          \E guid \in OsGuids(d), fault \in FaultInputs(d) :
             HotplugWhileScanning(d, guid, fault, FALSE)

SpecScanRace == InitEnum /\ [][NextScanRace]_vars

\* C33: while the scan of windows_init and the hotplug listener enumerate
\* the same device, the registry of the context never holds two nodes with
\* the same session identifier
C33_OneNodePerSession ==
    \A j, k \in DOMAIN usb_devs :
       j # k => usb_devs[j].session_id # usb_devs[k].session_id

(***************************************************************************)
(* htab_hash called by two threads                                         *)
(***************************************************************************)
\* the threads that call htab_hash: the scan of an application thread and
\* the hotplug listener
HashThreads == {1, 2}

\* thread th calls htab_hash(str) and runs it up to the lock: the search
\* and the test for a full table read the table without htab_write_mutex
HashSearch(th, str) ==
    /\ \A c \in pending : c.th # th
    /\ \E p \in {htab_search(CurT, str)} :
          IF p.found \/ htab_filled >= htab_size
          THEN /\ \E id \in {IF p.found THEN p.idx ELSE 0} :
                     /\ ev' = <<<<"hash", str, id, th>>>>
                     /\ hash_returned' =
                           [hash_returned EXCEPT ![str] = @ \cup {id}]
               /\ UNCHANGED pending
          ELSE /\ pending' = pending \cup
                     {[th |-> th, str |-> str, idx |-> p.idx, hval |-> p.hval]}
               /\ ev' = <<>>
               /\ UNCHANGED hash_returned
    /\ UNCHANGED <<htab_table, htab_filled>>
    /\ UNCHANGED <<host_controller, usb_devs, os_present, scan, lookup>>
    /\ UNCHANGED initVars
    /\ UNCHANGED xferVars

\* thread th takes htab_write_mutex, writes the entry at the index its
\* search ended at and returns
HashStore(th, nomem) ==
    /\ \E c \in {x \in pending : x.th = th} :
          /\ \E h \in {htab_store(CurT, c, c.str, nomem)} :
                /\ htab_table' = h.t.table
                /\ htab_filled' = h.t.filled
                /\ ev' = <<<<"hash", c.str, h.id, th>>>>
                /\ hash_returned' =
                      [hash_returned EXCEPT ![c.str] = @ \cup {h.id}]
          /\ pending' = pending \ {c}
    /\ UNCHANGED <<host_controller, usb_devs, os_present, scan, lookup>>
    /\ UNCHANGED initVars
    /\ UNCHANGED xferVars

\* the strings that share their first index with another string
CollidingStrings ==
    {s \in HashStrings :
        \E s2 \in HashStrings \ {s} :
           htab_search(HTab(EmptyTable, 0), s).hval =
              htab_search(HTab(EmptyTable, 0), s2).hval}

\* the interleavings of two calls in which every copy succeeds
NextHtabRace ==
    \/ \E th \in HashThreads, str \in CollidingStrings : HashSearch(th, str)
    \/ \E th \in HashThreads : HashStore(th, FALSE)

SpecHtabRace == InitHtab /\ [][NextHtabRace]_vars

\* C34: with two threads in htab_hash, two different strings never receive
\* the same identifier, and no entry a string has received the identifier
\* of is overwritten with another string
C34_ConcurrentHashDistinct ==
    \A s1 \in HashStrings :
       /\ \A s2 \in HashStrings \ {s1} :
             (hash_returned[s1] \cap hash_returned[s2]) \ {0} = {}
       /\ \A id \in hash_returned[s1] \ {0} :
             htab_table[id].str \notin HashStrings \ {s1}

(***************************************************************************)
(* Removal of a HID collection the aggregator had ignored                  *)
(***************************************************************************)
\* C35: on a composite device the removal of a HID collection whose path is
\* not the one its MI_ slot holds (the slot holds the path of another
\* collection of the interface, which arrived earlier) leaves the path and
\* the backend of that slot as they are
C35_IgnoredCollectionRemoval ==
    [][\A n \in Slots :
          /\ CompositeUnset
          /\ ev'[1][2] \in {CollectionId(n), NextCollectionId(n)}
          /\ usb_interface[n].apib = "HID"
          /\ \E leaf \in Leaves :
                /\ leaf[1] \in {CollectionId(n), NextCollectionId(n)}
                /\ leaf[2] = usb_interface[n].path
          /\ usb_interface[n].path # ev'[1][3]
          => /\ usb_interface'[n].path = usb_interface[n].path
             /\ usb_interface'[n].apib = usb_interface[n].apib]_vars

(***************************************************************************)
(* The interface number read from an instance id                           *)
(***************************************************************************)
\* longest tail that follows "MI_" in the instance ids the parser is given
MaxTail == 2

\* the characters of those tails, and the byte behind the terminator
TailChars == {"0", "3", "9", "&", "V", "M"}
PastChars == {"NUL", "0", "&", "M"}

\* instance ids with a marker and anything, or nothing, behind it
MarkerIds ==
    {<<"V", "&", "M", "I", "_">> \o tail :
        tail \in UNION {[1..n -> TailChars] : n \in 0..MaxTail}}

\* the bytes the loop can read: the string, its terminator, and what the
\* allocator left behind it
Memory(device_id, past) == device_id \o <<"NUL", past, "NUL", "NUL">>

\* interface_number as set_composite_interface and unset_composite_interface
\* compute it from the bytes at device_id
interface_number(device_id, past) == mi_scan(Memory(device_id, past), 0)

\* what the two functions do with usb_interface[interface_number]: the only
\* test is interface_number >= USB_MAXINTERFACES
slot_access(n) ==
    IF n >= NumSlots THEN "rejected"
    ELSE IF n \in Slots THEN "slot" ELSE "out_of_range"

\* set_composite_interface or unset_composite_interface is called for a
\* device interface with instance id device_id
ReadInterfaceNumber(device_id, past) ==
    /\ dev_api = "COMPOSITE"
    /\ \E n \in {interface_number(device_id, past)} :
          ev' = <<<<"mi", device_id, past, n, slot_access(n)>>>>
    /\ UNCHANGED xferVars
    /\ UNCHANGED enumVars
    /\ UNCHANGED procVars

InitMi ==
    /\ dev_api = "COMPOSITE"
    /\ usb_interface = BlankPriv.usb_interface
    /\ hid = BlankPriv.hid
    /\ ClosedHandle /\ EnumIdle /\ os_present = {} /\ ProcIdle

NextMi ==
    \E device_id \in MarkerIds \cup {leaf[1] : leaf \in Leaves},
       past \in PastChars : ReadInterfaceNumber(device_id, past)

SpecMi == InitMi /\ [][NextMi]_vars

\* C36: for every instance id the interface number is in
\* 0..USB_MAXINTERFACES-1 or the id is rejected; no slot outside that range
\* is read or written, whatever follows "MI_"
C36_InterfaceNumberInRange ==
    ev # <<>> /\ ev[1][1] = "mi" =>
       \/ ev[1][5] = "rejected"
       \/ ev[1][5] = "slot" /\ ev[1][4] \in Slots

(***************************************************************************)
(* The collections of a HID device                                         *)
(***************************************************************************)
\* the collection paths the OS reports for the HID device: one more than
\* there are slots
CollectionPaths == 1..(NumSlots + 1)

\* windows_enumerate_device has made the node a HID device
InitHid ==
    /\ dev_api = "HID"
    /\ usb_interface = BlankPriv.usb_interface
    /\ hid = Hid(0)
    /\ ClosedHandle /\ EnumIdle /\ os_present = {} /\ ProcIdle

NextHid ==
    \/ \E path \in CollectionPaths : InterfaceArrival(path, PlainId, "HID", FALSE)
    \/ \E path \in CollectionPaths : InterfaceRemoval(path, PlainId)

SpecHid == InitHid /\ [][NextHid]_vars

\* C37: on a HID device, after any sequence of set_hid_interface and
\* unset_hid_interface, the slots 0..nb_interfaces-1 hold pairwise distinct
\* paths with the HID backend, the slots from nb_interfaces on are without
\* path and Unsupported, and nb_interfaces is at most USB_MAXINTERFACES
C37_HidSlotsCompact ==
    dev_api = "HID" /\ hid # NoHid =>
       /\ hid[1] \in 0..NumSlots
       /\ \A i \in Slots :
             IF i < hid[1]
             THEN /\ usb_interface[i].path # NoPath
                  /\ usb_interface[i].apib = "HID"
                  /\ \A j \in Slots :
                        j < hid[1] /\ j # i =>
                           usb_interface[j].path # usb_interface[i].path
             ELSE usb_interface[i] = NoInterface

\* every slot holds a collection, one more collection has arrived and was
\* refused, after an earlier removal had moved collections up
C37_Witness ==
    /\ dev_api = "HID" /\ hid = Hid(NumSlots)
    /\ ev # <<>> /\ ev[1][1] = "set" /\ ev[1][5] = "NO_DEVICE"
    /\ usb_interface[0].path > usb_interface[1].path

(***************************************************************************)
(* The init semaphore and the usage counter across windows_init            *)
(***************************************************************************)
\* C38: every return of windows_init, with success or with an error, has
\* released the init semaphore, and a call that failed leaves
\* concurrent_usage at the value it had before the call
C38_InitReleasesSemaphore ==
    [][ev' # <<>> /\ ev'[1][1] = "init" =>
          /\ init_semaphore'
          /\ ev'[1][3] # "SUCCESS" => concurrent_usage' = concurrent_usage]_vars

(***************************************************************************)
(* The OS handles of open and close                                        *)
(***************************************************************************)
RECURSIVE winusbx_open_from(_, _, _)
\* winusbx_open, the loop from interface i on: CreateFile for every WinUSB
\* interface with a path; failing is the interface whose CreateFile fails
winusbx_open_from(h, i, failing) ==
    IF i \notin Interfaces THEN Ret(h, "SUCCESS")
    ELSE IF h.ui[i].path /\ h.ui[i].apib = "WINUSBX"
         THEN IF i = failing THEN Ret(h, "IO")
              ELSE winusbx_open_from(SetDevHandle(h, i, "OPEN"), i + 1, failing)
         ELSE winusbx_open_from(h, i + 1, failing)

winusbx_open(h, failing) == winusbx_open_from(h, 0, failing)

RECURSIVE hid_open_from(_, _, _, _)
\* hid_open, the loop from interface i on: CreateFile for every HID
\* interface with a path, a second time without access rights for the
\* interfaces in restricted
hid_open_from(h, i, failing, restricted) ==
    IF i \notin Interfaces THEN Ret(h, "SUCCESS")
    ELSE IF h.ui[i].path /\ h.ui[i].apib = "HID"
         THEN IF i = failing THEN Ret(h, "IO")
              ELSE hid_open_from(
                      SetApiHandle(
                         IF i \in restricted
                         THEN [h EXCEPT !.ui[i].restricted = TRUE] ELSE h,
                         i, "OPEN"),
                      i + 1, failing, restricted)
         ELSE hid_open_from(h, i + 1, failing, restricted)

hid_open(h, failing, restricted) == hid_open_from(h, 0, failing, restricted)

\* composite_open: the open of the WinUSB-like backend when an interface
\* uses it, then hid_open when an interface is HID
composite_open(h, failing, restricted) ==
    LET w == IF \E i \in Interfaces : h.ui[i].apib = "WINUSBX"
             THEN winusbx_open(h, failing) ELSE Ret(h, "NOT_FOUND")
    IN  IF (\E i \in Interfaces : h.ui[i].apib = "WINUSBX") /\ w.r # "SUCCESS"
        THEN w
        ELSE IF \E i \in Interfaces : h.ui[i].apib = "HID"
             THEN hid_open(w.h, failing, restricted)
             ELSE w

\* windows_open(dev_handle): priv->apib->open
windows_open(h, failing, restricted) ==
    CASE dev_api = "WINUSBX" -> winusbx_open(h, failing)
      [] dev_api = "HID" -> hid_open(h, failing, restricted)
      [] dev_api = "COMPOSITE" -> composite_open(h, failing, restricted)
      [] OTHER -> Ret(h, "NOT_SUPPORTED")

\* the file handles CreateFile returned for the device handle that no
\* CloseHandle was called on
OpenFiles(h) ==
    {i \in Interfaces :
        \/ h.ui[i].apib = "WINUSBX" /\ h.ih[i].dev_handle = "OPEN"
        \/ h.ui[i].apib = "HID" /\ h.ih[i].api_handle = "OPEN"}

\* libusb_open by the application: windows_open, and after a failure the
\* core frees the handle without a call of windows_close
OpenCall(failing, restricted) ==
    /\ ~opened
    /\ restricted \subseteq {i \in Interfaces : usb_interface[i].path
                                               /\ usb_interface[i].apib = "HID"}
    /\ \E o \in {windows_open(CurH, failing, restricted)} :
          IF o.r = "SUCCESS"
          THEN /\ opened' = TRUE
               /\ interface_handle' = o.h.ih
               /\ usb_interface' = o.h.ui
               /\ ev' = <<<<"open", o.r, {}>>>>
          ELSE /\ ev' = <<<<"open", o.r, OpenFiles(o.h)>>>>
               /\ UNCHANGED <<opened, interface_handle>>
               /\ usb_interface' = o.h.ui
    /\ UNCHANGED <<dev_api, hid, claimed_interfaces, autoclaim_count, transfers>>
    /\ UNCHANGED enumVars
    /\ UNCHANGED procVars

\* libusb_close by the application: windows_close, then the core frees the
\* handle
CloseCall ==
    /\ opened
    /\ transfers = EmptyBag
    /\ \E h \in {windows_close(CurH)} :
          ev' = <<<<"closed", "SUCCESS", OpenFiles(h)>>>>
    /\ opened' = FALSE
    /\ interface_handle' = [i \in Interfaces |->
                              [dev_handle |-> "INVALID", api_handle |-> "INVALID"]]
    /\ claimed_interfaces' = {}
    /\ autoclaim_count' = [i \in Interfaces |-> 0]
    /\ UNCHANGED <<dev_api, hid, usb_interface, transfers>>
    /\ UNCHANGED enumVars
    /\ UNCHANGED procVars

NextOpen ==
    \/ \E failing \in Interfaces \cup {-1}, restricted \in SUBSET Interfaces :
          OpenCall(failing, restricted)
    \/ \E iface \in Interfaces, os \in ClaimOs : ClaimCall(iface, os)
    \/ \E iface \in Interfaces : ReleaseCall(iface)
    \/ CloseCall

SpecOpen == InitTransfers /\ [][NextOpen]_vars

\* C39: after windows_close, and after an open that failed part-way, no
\* file handle that open created for the device handle is still open,
\* whatever the backend of the device
C39_NoHandleLeftOpen ==
    ev # <<>> /\ ev[1][1] \in {"open", "closed"} => ev[1][3] = {}

====
